---------------------------- MODULE Spec2Model ----------------------------
(***************************************************************************)
(* A model of the load-planning core of the dispatch planner:              *)
(*   src/src/utils/binPacking.js          BinPacker                        *)
(*   src/src/utils/cylindricalPacking.js  CylindricalPacker                *)
(*   src/src/utils/loadOptimization.js    LoadOptimizer                    *)
(*   src/src/utils/constraintsEngine.js   ConstraintsEngine                *)
(*   src/unnamed/part_003                 vehicleOptimization.js           *)
(*                                                                         *)
(* Numbers.  The JavaScript code computes in double precision.  The model  *)
(* computes in exact integer arithmetic:                                   *)
(*   - item and container dimensions are whole millimetres, weights whole  *)
(*     kilograms, as in the code's inputs;                                 *)
(*   - every coordinate of a `position` is kept as a fixed-point number,   *)
(*     the integer count of thousandths of the JavaScript value (FP(n) is  *)
(*     n * 1000).  The cuboidal packer writes millimetres into a position  *)
(*     and the cylindrical packer writes metres, exactly as the code does; *)
(*     the fixed-point value keeps the code's number, whatever its unit;   *)
(*   - volumes are whole cubic centimetres (load planning) or whole litres *)
(*     (vehicle distribution), pi is 355/113;                              *)
(*   - a quotient is never stored: a comparison of quotients is made by    *)
(*     cross-multiplication, a stored ratio is a numerator/denominator     *)
(*     pair.                                                               *)
(* A JavaScript NaN is modelled where the code can produce one (a          *)
(* comparison with NaN is false).                                          *)
(***************************************************************************)
EXTENDS Integers, Sequences, FiniteSets, TLC

VARIABLES
  mode,             \* which entry point this behaviour exercises
  vehicle,          \* LoadOptimizer.vehicle (the container specification)
  loadingSequence,  \* LoadOptimizer.constraints.loadingSequence
  orders,           \* the argument of optimizeLoad
  pc,               \* position inside optimizeLoad
  binPacker,        \* the BinPacker instance of packCuboidalItems
  cylPacker,        \* the CylindricalPacker instance of packCylindricalItems
  loadPlan,         \* the loadPlan object optimizeLoad builds and returns
  now,              \* the wall clock read by new Date()
  run,              \* 1 for the first call of optimizeLoad, 2 for the repeat
  firstPlan,        \* the plan the first call returned
  distInput,        \* the arguments of distributeOrdersAcrossVehicles
  heap,             \* the vehicle instance objects, heap[n] made with counter n
  allVehicleInstances, \* references (indices of heap) in push order
  work,             \* the loops of distributeOrdersAcrossVehicles in progress
  dpc,              \* position inside distributeOrdersAcrossVehicles
  result,           \* what distributeOrdersAcrossVehicles returned
  engine            \* a ConstraintsEngine, its caller and its call stack

loadVars == <<vehicle, loadingSequence, orders, pc, binPacker, cylPacker,
              loadPlan, now, run, firstPlan>>

distVars == <<distInput, heap, allVehicleInstances, work, dpc, result>>

vars == <<mode, vehicle, loadingSequence, orders, pc, binPacker, cylPacker,
          loadPlan, now, run, firstPlan, distInput, heap, allVehicleInstances,
          work, dpc, result, engine>>

(***************************************************************************)
(* Bounds of the model.                                                    *)
(***************************************************************************)
MaxOrders == 3     \* longest order list handed to optimizeLoad
MaxClock == 1      \* the wall clock takes the values 0 .. MaxClock
RandSteps == 2     \* Math.random() takes the values k / RandSteps, k < RandSteps
MaxDistOrders == 3 \* longest order list handed to distributeOrdersAcrossVehicles
MaxPool == 2       \* largest quantity of one entry of vehicleConfig

NoItem == "-"      \* a warning whose message names no item
None == [none |-> TRUE]  \* an absent record (null / undefined)
Undefined == "undefined" \* an absent string

(***************************************************************************)
(* Generic helpers.                                                        *)
(***************************************************************************)
FP(n) == n * 1000

Abs(n) == IF n < 0 THEN -n ELSE n

Min(a, b) == IF a < b THEN a ELSE b

Max(a, b) == IF a > b THEN a ELSE b

RECURSIVE SumSeq(_)
SumSeq(s) == IF s = <<>> THEN 0 ELSE Head(s) + SumSeq(Tail(s))

(* A JavaScript number that is a quotient of integers, kept exactly as a   *)
(* reduced fraction num / den with den > 0.                                *)
RECURSIVE GCD(_, _)
GCD(a, b) == IF b = 0 THEN a ELSE GCD(b, a % b)

Rat(n, d) == LET g == GCD(Abs(n), d) IN [num |-> n \div g, den |-> d \div g]

RatSub(a, b) == Rat(a.num * b.den - b.num * a.den, a.den * b.den)

RatLess(a, b) == a.num * b.den < b.num * a.den

RatMax(a, b) == IF RatLess(a, b) THEN b ELSE a

(* Math.ceil(a / b) for b > 0                                              *)
CeilDiv(a, b) == -((-a) \div b)

(* the comparator of the final sort of generateVehicleSuggestions          *)
SuggestionLess(a, b) ==
  LET scoreDiff == RatSub(b.efficiencyScore, a.efficiencyScore)
      efficiencyDiff == RatSub(b.efficiency, a.efficiency)
  IN  IF Abs(scoreDiff.num) > 5 * scoreDiff.den THEN scoreDiff.num < 0
      ELSE IF Abs(efficiencyDiff.num) > 5 * efficiencyDiff.den
      THEN efficiencyDiff.num < 0
      ELSE a.totalCost - b.totalCost < 0

RECURSIVE Filter(_, _)
(* Array.prototype.filter for the predicates the code uses, named by tag.  *)
Filter(s, tag) ==
  IF s = <<>> THEN <<>>
  ELSE LET h == Head(s)
           keep == CASE tag = "cuboidal" -> h.materialType = "cuboidal"
                     [] tag = "cylindrical" -> h.materialType = "cylindrical"
                     [] tag = "vertical" ->
                          h.orientation = "vertical" \/ h.orientation = Undefined
                     [] tag = "horizontal" -> h.orientation = "horizontal"
       IN  (IF keep THEN <<h>> ELSE <<>>) \o Filter(Tail(s), tag)

(***************************************************************************)
(* Array.prototype.sort.  The sort is stable (ECMAScript 2019), so for a   *)
(* comparator that is a consistent ordering the result is the one stable   *)
(* arrangement, whatever the engine.  Less(tag, a, b) is "comparator(a, b) *)
(* < 0" for the comparator named by tag; a NaN comparator result counts as *)
(* 0.  Insert puts x after every element it is not less than.              *)
(***************************************************************************)
DeliveryLength(item) == IF item.delivery = Undefined THEN 0 ELSE Len(item.delivery)

RouteRank(r) ==
  CASE r = "DEL-CHE" -> 1
    [] r = "DEL-HYD" -> 2
    [] r = "DEL-MUM" -> 3
    [] OTHER -> 0

CuboidVolumeCm3(d) == (d.length \div 10) * (d.width \div 10) * (d.height \div 10)

CylinderVolumeCm3(d) ==
  (355 * (d.diameter \div 20) * (d.diameter \div 20) * (d.height \div 10)) \div 113

(* BinPacker.calculateVolume: the volume of one unit.                      *)
BinPacker_calculateVolume(item) ==
  IF item.materialType = "cuboidal" THEN CuboidVolumeCm3(item.dimensions)
  ELSE IF item.materialType = "cylindrical" THEN CylinderVolumeCm3(item.dimensions)
  ELSE 0

(* the number the subtraction of the priority comparator makes of          *)
(* (priority || 0): 0 for a missing priority, the number a numeric string  *)
(* spells, NaN for any other string such as 'high'                         *)
PriorityNumber(priority) ==
  CASE priority = Undefined -> [nan |-> FALSE, n |-> 0]
    [] priority = "0" -> [nan |-> FALSE, n |-> 0]
    [] priority = "1" -> [nan |-> FALSE, n |-> 1]
    [] priority = "2" -> [nan |-> FALSE, n |-> 2]
    [] priority = "3" -> [nan |-> FALSE, n |-> 3]
    [] OTHER -> [nan |-> TRUE, n |-> 0]

Less(tag, a, b) ==
  CASE tag = "packing" ->
         \* sortItemsForPacking: volumes within 0.001 m3 count as equal
         LET volumeA == BinPacker_calculateVolume(a)
             volumeB == BinPacker_calculateVolume(b)
         IN  IF Abs(volumeA - volumeB) < 1000
             THEN (b.weight * b.quantity) - (a.weight * a.quantity) < 0
             ELSE volumeB - volumeA < 0
    [] tag = "diameter" -> b.dimensions.diameter - a.dimensions.diameter < 0
    [] tag = "lifo" -> DeliveryLength(a) - DeliveryLength(b) < 0
    [] tag = "fifo" -> DeliveryLength(b) - DeliveryLength(a) < 0
    [] tag = "route" ->
         IF a.route # b.route THEN RouteRank(a.route) < RouteRank(b.route)
         ELSE DeliveryLength(a) - DeliveryLength(b) < 0
    [] tag = "weight" -> (b.weight * b.quantity) - (a.weight * a.quantity) < 0
    [] tag = "lightest" -> (a.weight * a.quantity) - (b.weight * b.quantity) < 0
    [] tag = "priority" ->
         \* (b.priority || 0) - (a.priority || 0); NaN counts as equal
         /\ ~PriorityNumber(a.priority).nan
         /\ ~PriorityNumber(b.priority).nan
         /\ PriorityNumber(b.priority).n - PriorityNumber(a.priority).n < 0
    [] tag = "efficiency" ->
         \* costPerKm / Math.min(maxWeight / 1000, volume), volume in litres
         a.costPerKm * Min(b.maxWeight, b.volume)
           < b.costPerKm * Min(a.maxWeight, a.volume)
    [] tag = "totalCost" -> a.totalCost - b.totalCost < 0
    [] tag = "suggestion" -> SuggestionLess(a, b)

RECURSIVE Insert(_, _, _)
Insert(tag, sorted, x) ==
  IF sorted = <<>> THEN <<x>>
  ELSE LET last == sorted[Len(sorted)]
       IN  IF Less(tag, x, last)
           THEN Insert(tag, SubSeq(sorted, 1, Len(sorted) - 1), x) \o <<last>>
           ELSE sorted \o <<x>>

RECURSIVE SortFrom(_, _, _)
SortFrom(tag, sorted, rest) ==
  IF rest = <<>> THEN sorted
  ELSE SortFrom(tag, Insert(tag, sorted, Head(rest)), Tail(rest))

Sort(tag, s) == SortFrom(tag, <<>>, s)

(***************************************************************************)
(* BinPacker (src/src/utils/binPacking.js).  A packer is the record        *)
(* [container, placedItems, freeSpaces]; spaces are in millimetres.        *)
(***************************************************************************)
NewBinPacker(containerDimensions) ==
  [container |-> containerDimensions,
   placedItems |-> <<>>,
   freeSpaces |-> <<[x |-> 0, y |-> 0, z |-> 0,
                     length |-> containerDimensions.length,
                     width |-> containerDimensions.width,
                     height |-> containerDimensions.height]>>]

sortItemsForPacking(items) == Sort("packing", items)

getItemDimensions(item) ==
  IF item.materialType = "cuboidal"
  THEN [length |-> item.dimensions.length,
        width |-> item.dimensions.width,
        height |-> item.dimensions.height]
  ELSE IF item.materialType = "cylindrical"
  THEN IF item.orientation = "horizontal"
       THEN [length |-> item.dimensions.height,
             width |-> item.dimensions.diameter,
             height |-> item.dimensions.diameter]
       ELSE [length |-> item.dimensions.diameter,
             width |-> item.dimensions.diameter,
             height |-> item.dimensions.height]
  ELSE [length |-> 0, width |-> 0, height |-> 0]

(* placed items whose top is at or below the space's floor (y in mm)       *)
BinPacker_getItemsBelow(packer, space) ==
  SelectSeq(packer.placedItems,
            LAMBDA item : item.position.y + FP(getItemDimensions(item).height)
                            <= FP(space.y))

(* "Simplified calculation - return full area for now" (mm2)               *)
BinPacker_calculateSupportArea(item, space) ==
  item.dimensions.length * item.dimensions.width

BinPacker_checkCuboidalStacking(packer, item, space) ==
  LET itemsBelow == BinPacker_getItemsBelow(packer, space)
      itemWeight == item.weight * item.quantity
      heavyOnLight ==
        \E i \in 1..Len(itemsBelow) :
          \* itemWeight > belowWeight * 1.2
          10 * itemWeight > 12 * (itemsBelow[i].weight * itemsBelow[i].quantity)
      itemArea == item.dimensions.length * item.dimensions.width
  IN  IF heavyOnLight THEN FALSE
      ELSE IF space.y > 0
              /\ 10 * BinPacker_calculateSupportArea(item, space) < 8 * itemArea
           THEN FALSE
           ELSE TRUE

BinPacker_checkCylindricalSupport(packer, item, space) ==
  Len(BinPacker_getItemsBelow(packer, space)) > 0

BinPacker_checkNestingPossibility(packer, item, space) ==
  LET itemsBelow == BinPacker_getItemsBelow(packer, space)
  IN  \E i \in 1..Len(itemsBelow) :
        /\ itemsBelow[i].materialType = "cylindrical"
        /\ itemsBelow[i].dimensions.diameter > item.dimensions.diameter

BinPacker_checkCylindricalStacking(packer, item, space) ==
  IF item.orientation = "horizontal" /\ space.y > 0
     /\ ~BinPacker_checkCylindricalSupport(packer, item, space)
  THEN FALSE
  ELSE IF item.nesting /\ space.y > 0
       THEN BinPacker_checkNestingPossibility(packer, item, space)
       ELSE TRUE

checkStackingRules(packer, item, space) ==
  IF item.materialType = "cuboidal"
  THEN BinPacker_checkCuboidalStacking(packer, item, space)
  ELSE IF item.materialType = "cylindrical"
  THEN BinPacker_checkCylindricalStacking(packer, item, space)
  ELSE TRUE

(* calculateNewCenterOfGravity: the x coordinate as the pair               *)
(* <<weighted sum in millimetre-kilograms, total weight>>.  Every x the    *)
(* cuboidal packer writes is a whole number of millimetres.                *)
calculateNewCenterOfGravity(packer, newItem, position) ==
  LET placed == packer.placedItems
      weights == [i \in 1..Len(placed) |-> placed[i].weight * placed[i].quantity]
      newItemWeight == newItem.weight * newItem.quantity
      totalWeight == SumSeq(weights) + newItemWeight
      weightedX ==
        SumSeq([i \in 1..Len(placed) |-> (placed[i].position.x \div 1000) * weights[i]])
          + position.x * newItemWeight
  IN  [weightedX |-> weightedX, totalWeight |-> totalWeight]

(* |cog.x - length/2| < length * 0.1, multiplied through by 10 times the   *)
(* total weight; with a total weight of 0 the quotient is NaN and the      *)
(* comparison false.                                                       *)
checkWeightDistribution(packer, item, space) ==
  LET cog == calculateNewCenterOfGravity(packer, item, space)
      length == packer.container.length
  IN  /\ cog.totalWeight > 0
      /\ Abs(10 * cog.weightedX - 5 * length * cog.totalWeight)
           < length * cog.totalWeight

canFitInSpace(packer, item, space) ==
  LET itemDims == getItemDimensions(item)
  IN  IF \/ itemDims.length > space.length
         \/ itemDims.width > space.width
         \/ itemDims.height > space.height
      THEN FALSE
      ELSE IF ~checkWeightDistribution(packer, item, space) THEN FALSE
      ELSE IF ~checkStackingRules(packer, item, space) THEN FALSE
      ELSE TRUE

calculateOptimalPosition(item, space) ==
  [x |-> FP(space.x), y |-> FP(space.y), z |-> FP(space.z)]

(* the first free space, in list order, that admits the item; None if no   *)
(* space does                                                              *)
findBestPosition(packer, item) ==
  LET fits == {i \in 1..Len(packer.freeSpaces) :
                 canFitInSpace(packer, item, packer.freeSpaces[i])}
  IN  IF fits = {} THEN None
      ELSE LET first == CHOOSE i \in fits : \A j \in fits : i <= j
           IN  calculateOptimalPosition(item, packer.freeSpaces[first])

(* the packed item object of placeItem: {...item, position, packedAt}      *)
BinPacker_packedItem(item, position, clock) ==
  [position |-> position, packedAt |-> clock] @@ item

(* itemPos in millimetres                                                  *)
checkSpaceIntersection(space, itemPos, itemDims) ==
  ~ \/ space.x + space.length <= itemPos.x
    \/ space.x >= itemPos.x + itemDims.length
    \/ space.y + space.height <= itemPos.y
    \/ space.y >= itemPos.y + itemDims.height
    \/ space.z + space.width <= itemPos.z
    \/ space.z >= itemPos.z + itemDims.width

splitSpace(space, itemPos, itemDims) ==
  LET overlapX == Max(space.x, itemPos.x)
      overlapLength ==
        Min(space.x + space.length, itemPos.x + itemDims.length) - overlapX
      overlapZ == Max(space.z, itemPos.z)
      overlapWidth ==
        Min(space.z + space.width, itemPos.z + itemDims.width) - overlapZ
      left ==
        IF space.x < itemPos.x
        THEN <<[x |-> space.x, y |-> space.y, z |-> space.z,
                length |-> itemPos.x - space.x,
                width |-> space.width, height |-> space.height]>>
        ELSE <<>>
      right ==
        IF space.x + space.length > itemPos.x + itemDims.length
        THEN <<[x |-> itemPos.x + itemDims.length, y |-> space.y, z |-> space.z,
                length |-> (space.x + space.length) - (itemPos.x + itemDims.length),
                width |-> space.width, height |-> space.height]>>
        ELSE <<>>
      front ==
        IF space.z < itemPos.z
        THEN <<[x |-> overlapX, y |-> space.y, z |-> space.z,
                length |-> overlapLength,
                width |-> itemPos.z - space.z, height |-> space.height]>>
        ELSE <<>>
      back ==
        IF space.z + space.width > itemPos.z + itemDims.width
        THEN <<[x |-> overlapX, y |-> space.y, z |-> itemPos.z + itemDims.width,
                length |-> overlapLength,
                width |-> (space.z + space.width) - (itemPos.z + itemDims.width),
                height |-> space.height]>>
        ELSE <<>>
      top ==
        IF space.y + space.height > itemPos.y + itemDims.height
        THEN <<[x |-> overlapX, y |-> itemPos.y + itemDims.height, z |-> overlapZ,
                length |-> overlapLength, width |-> overlapWidth,
                height |-> (space.y + space.height) - (itemPos.y + itemDims.height)]>>
        ELSE <<>>
  IN  SelectSeq(left \o right \o front \o back \o top,
                LAMBDA s : s.length > 0 /\ s.width > 0 /\ s.height > 0)

(* a merge that also drops spaces up to 300 mm thin                        *)
mergeSpaces_dropNarrow(spaces) ==
  SelectSeq(spaces, LAMBDA space : space.length > 300 /\ space.width > 300
                                     /\ space.height > 300)

(* "Simple implementation - remove duplicates and very small spaces"       *)
mergeSpaces(spaces) ==
  SelectSeq(spaces, LAMBDA space : space.length > 10 /\ space.width > 10
                                     /\ space.height > 10)

RECURSIVE SplitAll(_, _, _)
SplitAll(spaces, itemPos, itemDims) ==
  IF spaces = <<>> THEN <<>>
  ELSE LET space == Head(spaces)
       IN  (IF ~checkSpaceIntersection(space, itemPos, itemDims)
            THEN <<space>>
            ELSE splitSpace(space, itemPos, itemDims))
           \o SplitAll(Tail(spaces), itemPos, itemDims)

updateFreeSpaces(packer, packedItem) ==
  LET itemDims == getItemDimensions(packedItem)
      itemPos == [x |-> packedItem.position.x \div 1000,
                  y |-> packedItem.position.y \div 1000,
                  z |-> packedItem.position.z \div 1000]
  IN  [packer EXCEPT
         !.freeSpaces = mergeSpaces(SplitAll(packer.freeSpaces, itemPos, itemDims))]

(* one iteration of the loop of BinPacker.packItems: the packer and the    *)
(* list of packed items after `item` has been tried                        *)
BinPacker_packOne(packer, packedItems, item, clock) ==
  LET position == findBestPosition(packer, item)
  IN  IF position # None
      THEN LET packedItem == BinPacker_packedItem(item, position, clock)
               placed == [packer EXCEPT !.placedItems = Append(@, packedItem)]
           IN  [packer |-> updateFreeSpaces(placed, packedItem),
                packedItems |-> Append(packedItems, packedItem)]
      ELSE [packer |-> packer, packedItems |-> packedItems]

(***************************************************************************)
(* Math.cos and Math.sin of the angle 2*pi*i/n, as fixed-point numbers     *)
(* scaled by TrigScale, computed from the Taylor series on the first       *)
(* quadrant.  The error is below 3/TrigScale.                              *)
(***************************************************************************)
TrigScale == 10000

TwoPiScaled == 62832

TaylorCos(x) ==
  LET u == (x * x) \div TrigScale
      t1 == u \div 2
      t2 == (t1 * u) \div (12 * TrigScale)
      t3 == (t2 * u) \div (30 * TrigScale)
      t4 == (t3 * u) \div (56 * TrigScale)
      t5 == (t4 * u) \div (90 * TrigScale)
  IN  TrigScale - t1 + t2 - t3 + t4 - t5

TaylorSin(x) ==
  LET u == (x * x) \div TrigScale
      s2 == (x * u) \div (6 * TrigScale)
      s3 == (s2 * u) \div (20 * TrigScale)
      s4 == (s3 * u) \div (42 * TrigScale)
      s5 == (s4 * u) \div (72 * TrigScale)
      s6 == (s5 * u) \div (110 * TrigScale)
  IN  x - s2 + s3 - s4 + s5 - s6

(* <<cos, sin>> of 2*pi*i/n for 0 <= i < n                                 *)
CosSin(i, n) ==
  LET Rad(p, q) == (TwoPiScaled * p) \div q
  IN  IF 4 * i <= n
      THEN <<TaylorCos(Rad(i, n)), TaylorSin(Rad(i, n))>>
      ELSE IF 2 * i <= n
      THEN <<-TaylorCos(Rad(n - 2 * i, 2 * n)), TaylorSin(Rad(n - 2 * i, 2 * n))>>
      ELSE IF 4 * i <= 3 * n
      THEN <<-TaylorCos(Rad(2 * i - n, 2 * n)), -TaylorSin(Rad(2 * i - n, 2 * n))>>
      ELSE <<TaylorCos(Rad(n - i, n)), -TaylorSin(Rad(n - i, n))>>

(* r * c / TrigScale rounded to the nearest integer                        *)
ScaleRound(r, c) ==
  IF c < 0 THEN -((r * (-c) + TrigScale \div 2) \div TrigScale)
  ELSE (r * c + TrigScale \div 2) \div TrigScale

(***************************************************************************)
(* CylindricalPacker (src/src/utils/cylindricalPacking.js).  A packer is   *)
(* the record [container, existingItems, packedItems].  The packer works   *)
(* in metres: a coordinate it writes is FP(metres), so that d / 2000 is    *)
(* d \div 2 and h / 1000 is h for a diameter d and a height h in mm.       *)
(***************************************************************************)
NewCylindricalPacker(containerDimensions, existingPlan) ==
  [container |-> containerDimensions,
   existingItems |-> IF existingPlan = None THEN <<>> ELSE existingPlan.items,
   packedItems |-> <<>>]

sortByDiameter(items) == Sort("diameter", items)

(* calculateItemBounds.  Applied to a cuboidal item (one of existingItems) *)
(* dimensions.diameter is undefined and the x and z bounds are NaN.        *)
calculateItemBounds(item, position) ==
  IF item.materialType # "cylindrical"
  THEN [nan |-> TRUE, minX |-> 0, maxX |-> 0,
        minY |-> position.y, maxY |-> position.y + item.dimensions.height,
        minZ |-> 0, maxZ |-> 0]
  ELSE IF item.orientation = "horizontal"
  THEN [nan |-> FALSE,
        minX |-> position.x - item.dimensions.height \div 2,
        maxX |-> position.x + item.dimensions.height \div 2,
        minY |-> position.y - item.dimensions.diameter \div 2,
        maxY |-> position.y + item.dimensions.diameter \div 2,
        minZ |-> position.z - item.dimensions.diameter \div 2,
        maxZ |-> position.z + item.dimensions.diameter \div 2]
  ELSE [nan |-> FALSE,
        minX |-> position.x - item.dimensions.diameter \div 2,
        maxX |-> position.x + item.dimensions.diameter \div 2,
        minY |-> position.y,
        maxY |-> position.y + item.dimensions.height,
        minZ |-> position.z - item.dimensions.diameter \div 2,
        maxZ |-> position.z + item.dimensions.diameter \div 2]

(* isWithinContainer with the test against the container's height left out *)
isWithinContainer_noHeight(packer, bounds) ==
  /\ ~bounds.nan
  /\ bounds.minX >= 0 /\ bounds.maxX <= packer.container.length
  /\ bounds.minY >= 0
  /\ bounds.minZ >= 0 /\ bounds.maxZ <= packer.container.width

isWithinContainer(packer, bounds) ==
  /\ ~bounds.nan
  /\ bounds.minX >= 0 /\ bounds.maxX <= packer.container.length
  /\ bounds.minY >= 0 /\ bounds.maxY <= packer.container.height
  /\ bounds.minZ >= 0 /\ bounds.maxZ <= packer.container.width

(* checkCollision with the leading negation left out                       *)
checkCollision_inverted(bounds1, bounds2) ==
  LET nan == bounds1.nan \/ bounds2.nan
  IN  \/ (~nan /\ (bounds1.maxX < bounds2.minX \/ bounds1.minX > bounds2.maxX))
      \/ bounds1.maxY < bounds2.minY \/ bounds1.minY > bounds2.maxY
      \/ (~nan /\ (bounds1.maxZ < bounds2.minZ \/ bounds1.minZ > bounds2.maxZ))

checkCollision(bounds1, bounds2) ==
  LET nan == bounds1.nan \/ bounds2.nan
  IN  ~ \/ (~nan /\ (bounds1.maxX < bounds2.minX \/ bounds1.minX > bounds2.maxX))
        \/ bounds1.maxY < bounds2.minY \/ bounds1.minY > bounds2.maxY
        \/ (~nan /\ (bounds1.maxZ < bounds2.minZ \/ bounds1.minZ > bounds2.maxZ))

validatePosition(packer, item, position) ==
  LET itemBounds == calculateItemBounds(item, position)
      others == packer.packedItems \o packer.existingItems
  IN  IF ~isWithinContainer(packer, itemBounds) THEN FALSE
      ELSE \A i \in 1..Len(others) :
             ~checkCollision(itemBounds,
                             calculateItemBounds(others[i], others[i].position))

validateNestingPosition(packer, item, position) ==
  validatePosition(packer, item, position)

findNestingCompatibleItems(packer, item) ==
  SelectSeq(packer.packedItems,
            LAMBDA packedItem :
              /\ packedItem.materialType = "cylindrical"
              /\ ~(packedItem.dimensions.diameter <= item.dimensions.diameter)
              /\ packedItem.dimensions.height - item.dimensions.height >= 50)

(* calculateNestingPosition with the two values k1/RandSteps, k2/RandSteps *)
(* of Math.random().  maxOffset is 0.8 * radiusDiff, a number of           *)
(* millimetres that the code adds to a position in metres; so is           *)
(* baseItem.dimensions.height.                                             *)
calculateNestingPosition(item, baseItem, k1, k2) ==
  LET diameterDiff == baseItem.dimensions.diameter - item.dimensions.diameter
      Offset(k) == ((2 * k - RandSteps) * 200 * diameterDiff) \div RandSteps
  IN  [x |-> baseItem.position.x + Offset(k1),
       y |-> baseItem.position.y + FP(baseItem.dimensions.height),
       z |-> baseItem.position.z + Offset(k2)]

(* findNestingPosition: rnd[i] is the pair of random draws made for the    *)
(* i-th compatible item                                                    *)
RECURSIVE findNestingFrom(_, _, _, _, _)
findNestingFrom(packer, item, compatibleItems, rnd, i) ==
  IF i > Len(compatibleItems) THEN None
  ELSE LET nestingPosition ==
             calculateNestingPosition(item, compatibleItems[i], rnd[i][1], rnd[i][2])
       IN  IF validateNestingPosition(packer, item, nestingPosition)
           THEN nestingPosition
           ELSE findNestingFrom(packer, item, compatibleItems, rnd, i + 1)

findNestingPosition(packer, item, rnd) ==
  findNestingFrom(packer, item, findNestingCompatibleItems(packer, item), rnd, 1)

RingLimit == 10

(* Math.floor(circumference / (radius * 2.2)), which is floor(2*pi*ring)   *)
ItemsInRing(ring) == (710 * ring) \div 113

RECURSIVE findCircularFrom(_, _, _, _)
findCircularFrom(packer, item, ring, i) ==
  LET radius == item.dimensions.diameter \div 2
      containerRadius == Min(packer.container.length, packer.container.width) \div 2
      ringRadius == (ring * item.dimensions.diameter * 11) \div 10
      itemsInRing == ItemsInRing(ring)
  IN  IF ~(ring < RingLimit) THEN None
      ELSE IF ringRadius + radius > containerRadius THEN None
      ELSE IF ~(i < itemsInRing) THEN findCircularFrom(packer, item, ring + 1, 0)
      ELSE LET cs == CosSin(i, itemsInRing)
               position ==
                 [x |-> packer.container.length \div 2 + ScaleRound(ringRadius, cs[1]),
                  y |-> 100,
                  z |-> packer.container.width \div 2 + ScaleRound(ringRadius, cs[2])]
           IN  IF validatePosition(packer, item, position) THEN position
               ELSE findCircularFrom(packer, item, ring, i + 1)

findCircularPackingPosition(packer, item) == findCircularFrom(packer, item, 0, 0)

RECURSIVE findHorizontalFrom(_, _, _, _)
findHorizontalFrom(packer, item, x, z) ==
  LET length == item.dimensions.height
      diameter == item.dimensions.diameter
      step == (diameter * 11) \div 10
  IN  IF ~(x < packer.container.length - length \div 2) THEN None
      ELSE IF ~(z < packer.container.width - diameter \div 2)
      THEN findHorizontalFrom(packer, item, x + step, diameter \div 2)
      ELSE LET position == [x |-> x, y |-> diameter \div 2, z |-> z]
           IN  IF validatePosition(packer, item, position) THEN position
               ELSE findHorizontalFrom(packer, item, x, z + step)

findHorizontalPosition(packer, item) ==
  findHorizontalFrom(packer, item, item.dimensions.diameter \div 2,
                     item.dimensions.diameter \div 2)

calculateSupportWedges(item, position) ==
  LET wedgeHeight == (item.dimensions.diameter * 3) \div 10
      Wedge(x) == [type |-> "wedge",
                   position |-> [x |-> x, y |-> 0, z |-> position.z],
                   dimensions |-> [width |-> 100, height |-> wedgeHeight,
                                   length |-> 200]]
  IN  <<Wedge(position.x - item.dimensions.height \div 2),
        Wedge(position.x + item.dimensions.height \div 2)>>

isPositionWithin(position, containerPos, containerDims) ==
  LET dx == position.x - containerPos.x
      dz == position.z - containerPos.z
      radius == containerDims.diameter \div 2
  IN  /\ dx * dx + dz * dz < radius * radius
      /\ position.y >= containerPos.y

isNested(packer, item, position) ==
  \E i \in 1..Len(packer.packedItems) :
    LET packedItem == packer.packedItems[i]
    IN  /\ packedItem.materialType = "cylindrical"
        /\ packedItem.dimensions.diameter > item.dimensions.diameter
        /\ isPositionWithin(position, packedItem.position, packedItem.dimensions)

calculateStability(packer, item, position) ==
  LET s1 == IF item.orientation = "horizontal" /\ position.y > 100
            THEN 100 - 30 ELSE 100
      s2 == IF item.fragile THEN s1 - 20 ELSE s1
      s3 == IF item.nesting /\ isNested(packer, item, position)
            THEN s2 + 20 ELSE s2
  IN  Max(0, Min(100, s3))

(* the packed item object of createPackedItem                              *)
CylindricalPacker_packedItem(packer, item, position, clock) ==
  [position |-> position, packedAt |-> clock,
   stability |-> calculateStability(packer, item, position)] @@ item

createPackedItem(packer, item, position, clock) ==
  [packer EXCEPT !.packedItems =
     Append(@, CylindricalPacker_packedItem(packer, item, position, clock))]

(* one iteration of the loop of packVerticalCylinders                      *)
packVerticalOne(packer, item, rnd, clock) ==
  LET nested == IF item.nesting THEN findNestingPosition(packer, item, rnd)
                ELSE None
  IN  IF nested # None THEN createPackedItem(packer, item, nested, clock)
      ELSE LET position == findCircularPackingPosition(packer, item)
           IN  IF position # None
               THEN createPackedItem(packer, item, position, clock)
               ELSE packer

(* one iteration of the loop of packHorizontalCylinders; the support       *)
(* wedges are set on the object that createPackedItem pushed               *)
packHorizontalOne(packer, item, clock) ==
  LET position == findHorizontalPosition(packer, item)
  IN  IF position # None
      THEN LET created == createPackedItem(packer, item, position, clock)
               last == Len(created.packedItems)
           IN  IF ~item.fragile
               THEN [created EXCEPT !.packedItems[last] =
                       [supportStructure |-> calculateSupportWedges(item, position)]
                         @@ @]
               ELSE created
      ELSE packer

(***************************************************************************)
(* LoadOptimizer (src/src/utils/loadOptimization.js).                      *)
(***************************************************************************)
(* a quotient num / den kept as a pair; 0 is kept as 0 / 1                 *)
Ratio(num, den) ==
  IF num = 0 THEN [num |-> 0, den |-> 1] ELSE [num |-> num, den |-> den]

(* calculateTotals with the quantity left out of the weight                *)
calculateTotals_perEntry(items) ==
  [weight |-> SumSeq([i \in 1..Len(items) |-> items[i].weight]),
   volume |-> SumSeq([i \in 1..Len(items) |->
                IF items[i].materialType = "cuboidal"
                THEN CuboidVolumeCm3(items[i].dimensions) * items[i].quantity
                ELSE IF items[i].materialType = "cylindrical"
                THEN CylinderVolumeCm3(items[i].dimensions) * items[i].quantity
                ELSE 0])]

(* volume in cm3                                                           *)
calculateTotals(items) ==
  [weight |-> SumSeq([i \in 1..Len(items) |-> items[i].weight * items[i].quantity]),
   volume |-> SumSeq([i \in 1..Len(items) |->
                IF items[i].materialType = "cuboidal"
                THEN CuboidVolumeCm3(items[i].dimensions) * items[i].quantity
                ELSE IF items[i].materialType = "cylindrical"
                THEN CylinderVolumeCm3(items[i].dimensions) * items[i].quantity
                ELSE 0])]

(* the percentages are 100 * num / den                                     *)
LoadOptimizer_calculateUtilization(veh, items) ==
  LET totals == calculateTotals(items)
  IN  [weight |-> Ratio(totals.weight, veh.maxWeight),
       volume |-> Ratio(totals.volume, veh.volume)]

(* the centre of gravity is (x / w, y / w, z / w), in fixed point          *)
LoadOptimizer_calculateCenterOfGravity(items) ==
  LET w == [i \in 1..Len(items) |-> items[i].weight * items[i].quantity]
      totalWeight == SumSeq(w)
  IN  IF totalWeight > 0
      THEN [x |-> SumSeq([i \in 1..Len(items) |-> items[i].position.x * w[i]]),
            y |-> SumSeq([i \in 1..Len(items) |-> items[i].position.y * w[i]]),
            z |-> SumSeq([i \in 1..Len(items) |-> items[i].position.z * w[i]]),
            w |-> totalWeight]
      ELSE [x |-> 0, y |-> 0, z |-> 0, w |-> 1]

NewLoadPlan(veh) ==
  [vehicleId |-> veh.id,
   totalWeight |-> 0,
   totalVolume |-> 0,
   centerOfGravity |-> [x |-> 0, y |-> 0, z |-> 0, w |-> 1],
   layers |-> <<>>,
   warnings |-> <<>>,
   utilization |-> [weight |-> Ratio(0, 1), volume |-> Ratio(0, 1)],
   items |-> <<>>]

mergePlan(veh, mainPlan, subPlan) ==
  LET items == mainPlan.items \o subPlan.items
      totals == calculateTotals(items)
  IN  [mainPlan EXCEPT
         !.items = items,
         !.warnings = @ \o subPlan.warnings,
         !.totalWeight = totals.weight,
         !.totalVolume = totals.volume,
         !.utilization = LoadOptimizer_calculateUtilization(veh, items),
         !.centerOfGravity = LoadOptimizer_calculateCenterOfGravity(items)]

Warning(type, severity, item) ==
  [type |-> type, severity |-> severity, item |-> item]

RECURSIVE validateCuboidalPacking(_)
validateCuboidalPacking(items) ==
  IF items = <<>> THEN <<>>
  ELSE LET item == Head(items)
       IN  (IF item.weight > 50 /\ item.position.y > FP(1000)
            THEN <<Warning("heavy_item_high", "medium", item.id)>>
            ELSE <<>>) \o validateCuboidalPacking(Tail(items))

RECURSIVE validateCylindricalPacking(_)
validateCylindricalPacking(items) ==
  IF items = <<>> THEN <<>>
  ELSE LET item == Head(items)
       IN  (IF item.orientation = "horizontal" /\ item.fragile
            THEN <<Warning("fragile_horizontal", "high", item.id)>>
            ELSE <<>>) \o validateCylindricalPacking(Tail(items))

(* the return value of packCuboidalItems                                   *)
packCuboidalItems(veh, packedItems) ==
  [items |-> packedItems,
   utilization |-> LoadOptimizer_calculateUtilization(veh, packedItems),
   warnings |-> validateCuboidalPacking(packedItems)]

(* the return value of packCylindricalItems                                *)
packCylindricalItems(veh, packedItems) ==
  [items |-> packedItems,
   utilization |-> LoadOptimizer_calculateUtilization(veh, packedItems),
   warnings |-> validateCylindricalPacking(packedItems)]

(* weightDistributionTolerance is 0.1; the plan's centre of gravity is     *)
(* cog.x / cog.w thousandths                                               *)
validateCenterOfGravity(veh, plan) ==
  LET cog == plan.centerOfGravity
      Off(c, size) == Abs(2 * c - FP(size) * cog.w) > 200 * size * cog.w
  IN  ~(Off(cog.x, veh.dimensions.length) \/ Off(cog.z, veh.dimensions.width))

(* calculateAxleWeight times 1000 * vehicleLength                          *)
calculateAxleWeight(veh, items, axle) ==
  LET vehicleLength == veh.dimensions.length
      axlePosition == IF axle = "front" THEN 200 * vehicleLength
                      ELSE 800 * vehicleLength
  IN  SumSeq([i \in 1..Len(items) |->
        (items[i].weight * items[i].quantity)
          * Max(0, FP(vehicleLength) - Abs(items[i].position.x - axlePosition))])

(* frontPercentage < 20 or > 40; with a total of 0 the percentage is NaN   *)
(* and both comparisons are false                                          *)
validateAxleLoads(veh, plan) ==
  LET frontAxleWeight == calculateAxleWeight(veh, plan.items, "front")
      rearAxleWeight == calculateAxleWeight(veh, plan.items, "rear")
  IN  IF frontAxleWeight + rearAxleWeight = 0 THEN TRUE
      ELSE ~(4 * frontAxleWeight < rearAxleWeight
             \/ 3 * frontAxleWeight > 2 * rearAxleWeight)

StackingOffender(item) ==
  item.materialType = "cuboidal" /\ ~item.stackable /\ item.position.y > 100

(* the id of the first offending item, Undefined if the rules hold         *)
validateStackingRules(plan) ==
  LET bad == {i \in 1..Len(plan.items) : StackingOffender(plan.items[i])}
  IN  IF bad = {} THEN Undefined
      ELSE plan.items[CHOOSE i \in bad : \A j \in bad : i <= j].id

validateLoadingSequence(plan) == TRUE

validateLoadPlan(veh, plan) ==
  LET stacking == validateStackingRules(plan)
      w1 == IF ~validateCenterOfGravity(veh, plan)
            THEN <<Warning("weight_distribution", "high", NoItem)>> ELSE <<>>
      w2 == IF ~validateAxleLoads(veh, plan)
            THEN <<Warning("axle_load", "medium", NoItem)>> ELSE <<>>
      w3 == IF stacking # Undefined
            THEN <<Warning("stacking_violation", "high", stacking)>> ELSE <<>>
      w4 == IF ~validateLoadingSequence(plan)
            THEN <<Warning("loading_sequence", "medium", NoItem)>> ELSE <<>>
  IN  [plan EXCEPT !.warnings = @ \o w1 \o w2 \o w3 \o w4]

(* a LIFO arrangement that also restacks: the later an item is loaded the  *)
(* higher it is put                                                        *)
arrangeLIFO_restack(items) ==
  LET sorted == Sort("lifo", items)
  IN  [i \in 1..Len(sorted) |-> [sorted[i] EXCEPT !.position.y = @ + i]]

arrangeLIFO(items) == Sort("lifo", items)

arrangeFIFO(items) == Sort("fifo", items)

arrangeByRoute(items) == Sort("route", items)

arrangeByWeight(items) == Sort("weight", items)

optimizeLoadSequence(sequence, plan) ==
  CASE sequence = "lifo" -> [plan EXCEPT !.items = arrangeLIFO(@)]
    [] sequence = "fifo" -> [plan EXCEPT !.items = arrangeFIFO(@)]
    [] sequence = "route" -> [plan EXCEPT !.items = arrangeByRoute(@)]
    [] sequence = "weight" -> [plan EXCEPT !.items = arrangeByWeight(@)]
    [] OTHER -> plan

(***************************************************************************)
(* Inputs of load planning.                                                *)
(***************************************************************************)
OrderIds == <<"SO001", "SO002", "SO003", "SO004", "SO005">>

ItemKinds ==
  {[materialType |-> "cuboidal",
    dimensions |-> [length |-> 1000, width |-> 800, height |-> 600],
    weight |-> 50, quantity |-> 10, stackable |-> TRUE, fragile |-> FALSE,
    orientation |-> Undefined, nesting |-> FALSE,
    hazardous |-> FALSE,
    route |-> "DEL-MUM", delivery |-> "Mumbai"],
   [materialType |-> "cuboidal",
    dimensions |-> [length |-> 600, width |-> 400, height |-> 300],
    weight |-> 25, quantity |-> 2, stackable |-> FALSE, fragile |-> FALSE,
    orientation |-> Undefined, nesting |-> FALSE,
    hazardous |-> FALSE,
    route |-> "DEL-HYD", delivery |-> "Hyderabad"],
   [materialType |-> "cylindrical",
    dimensions |-> [diameter |-> 600, height |-> 800],
    weight |-> 4, quantity |-> 2, stackable |-> TRUE, fragile |-> FALSE,
    orientation |-> "vertical", nesting |-> FALSE,
    hazardous |-> TRUE,
    route |-> "DEL-MUM", delivery |-> "Mumbai"],
   [materialType |-> "cylindrical",
    dimensions |-> [diameter |-> 580, height |-> 600],
    weight |-> 3, quantity |-> 1, stackable |-> TRUE, fragile |-> FALSE,
    orientation |-> Undefined, nesting |-> TRUE,
    hazardous |-> TRUE,
    route |-> "DEL-HYD", delivery |-> "Hyderabad"],
   [materialType |-> "cylindrical",
    dimensions |-> [diameter |-> 400, height |-> 1200],
    weight |-> 6, quantity |-> 1, stackable |-> TRUE, fragile |-> FALSE,
    orientation |-> "horizontal", nesting |-> FALSE,
    hazardous |-> TRUE,
    route |-> "DEL-CHE", delivery |-> "Chennai"],
   [materialType |-> "cylindrical",
    dimensions |-> [diameter |-> 500, height |-> 800],
    weight |-> 5, quantity |-> 1, stackable |-> TRUE, fragile |-> TRUE,
    orientation |-> "horizontal", nesting |-> FALSE,
    hazardous |-> FALSE,
    route |-> "DEL-MUM", delivery |-> "Mumbai"]}

(* order lists: 1 .. MaxOrders items, the i-th with the i-th identifier    *)
OrderLists ==
  UNION {{[i \in 1..n |-> [id |-> OrderIds[i]] @@ kinds[i]] :
            kinds \in [1..n -> ItemKinds]} : n \in 1..MaxOrders}

(* containers: a 6.0 x 2.4 x 2.7 m body, one tall enough for the nesting   *)
(* position the code computes, and a small one of 750 kg and 4.6 cubic     *)
(* metres                                                                  *)
LoadVehicles ==
  {[id |-> "SXL", maxWeight |-> 25000, volume |-> 38500000,
    dimensions |-> [length |-> 6000, width |-> 2400, height |-> 2700]],
   [id |-> "TATA_ACE", maxWeight |-> 750, volume |-> 4600000,
    dimensions |-> [length |-> 2200, width |-> 1500, height |-> 1400]],
   [id |-> "TOWER", maxWeight |-> 25000, volume |-> 38500000,
    dimensions |-> [length |-> 6000, width |-> 2400, height |-> 1000000]]}

LoadingSequences == {"lifo", "fifo", "route", "weight", "priority"}

(***************************************************************************)
(* optimizeLoad, step by step.                                             *)
(***************************************************************************)
IdleBinPacker == [packer |-> None, sortedItems |-> <<>>, packedItems |-> <<>>]

IdleCylPacker == [packer |-> None, verticalItems |-> <<>>, horizontalItems |-> <<>>]

InitLoad ==
  /\ mode = "load"
  /\ vehicle \in LoadVehicles
  /\ loadingSequence \in LoadingSequences
  /\ orders \in OrderLists
  /\ pc = "idle"
  /\ binPacker = IdleBinPacker
  /\ cylPacker = IdleCylPacker
  /\ loadPlan = None
  /\ now = 0
  /\ run = 1
  /\ firstPlan = None
  /\ distInput = None
  /\ heap = <<>>
  /\ allVehicleInstances = <<>>
  /\ work = None
  /\ dpc = "idle"
  /\ result = <<>>
  /\ engine = None

cuboidalOrders == Filter(orders, "cuboidal")

cylindricalOrders == Filter(orders, "cylindrical")

(* optimizeLoad up to the call of packCuboidalItems                        *)
OptimizeLoadStart ==
  /\ pc = "idle"
  /\ loadPlan' = NewLoadPlan(vehicle)
  /\ binPacker' = IF Len(cuboidalOrders) > 0
                  THEN [packer |-> NewBinPacker(vehicle.dimensions),
                        sortedItems |-> sortItemsForPacking(cuboidalOrders),
                        packedItems |-> <<>>]
                  ELSE IdleBinPacker
  /\ pc' = "cuboidal"
  /\ UNCHANGED <<distVars, engine, mode, vehicle, loadingSequence, orders, cylPacker, now, run,
                 firstPlan>>

(* one iteration of the loop of BinPacker.packItems                        *)
PackCuboidalStep ==
  /\ pc = "cuboidal"
  /\ binPacker.sortedItems # <<>>
  /\ \E t \in now..MaxClock :
       LET r == BinPacker_packOne(binPacker.packer, binPacker.packedItems,
                                  Head(binPacker.sortedItems), t)
       IN  /\ binPacker' = [packer |-> r.packer,
                            sortedItems |-> Tail(binPacker.sortedItems),
                            packedItems |-> r.packedItems]
           /\ now' = IF r.packedItems # binPacker.packedItems THEN t ELSE now
  /\ UNCHANGED <<distVars, engine, mode, vehicle, loadingSequence, orders, pc, cylPacker, loadPlan,
                 run, firstPlan>>

(* packCuboidalItems returns and its plan is merged; the cylindrical       *)
(* packer is created over the plan so far                                  *)
PackCuboidalReturn ==
  /\ pc = "cuboidal"
  /\ binPacker.sortedItems = <<>>
  /\ LET merged == IF Len(cuboidalOrders) > 0
                   THEN mergePlan(vehicle, loadPlan,
                                  packCuboidalItems(vehicle, binPacker.packedItems))
                   ELSE loadPlan
     IN  /\ loadPlan' = merged
         /\ cylPacker' =
              IF Len(cylindricalOrders) > 0
              THEN [packer |-> NewCylindricalPacker(vehicle.dimensions, merged),
                    verticalItems |->
                      sortByDiameter(Filter(cylindricalOrders, "vertical")),
                    horizontalItems |-> Filter(cylindricalOrders, "horizontal")]
              ELSE IdleCylPacker
  /\ pc' = "cylindrical"
  /\ UNCHANGED <<distVars, engine, mode, vehicle, loadingSequence, orders, binPacker, now, run,
                 firstPlan>>

(* one iteration of the loop of packVerticalCylinders                      *)
PackVerticalStep ==
  /\ pc = "cylindrical"
  /\ cylPacker.verticalItems # <<>>
  /\ LET item == Head(cylPacker.verticalItems)
         draws == IF item.nesting
                  THEN Len(findNestingCompatibleItems(cylPacker.packer, item))
                  ELSE 0
     IN  \E t \in now..MaxClock :
         \E rnd \in [1..draws -> (0..(RandSteps - 1)) \X (0..(RandSteps - 1))] :
           LET packer == packVerticalOne(cylPacker.packer, item, rnd, t)
           IN  /\ cylPacker' = [cylPacker EXCEPT
                                  !.packer = packer,
                                  !.verticalItems = Tail(@)]
               /\ now' = IF packer # cylPacker.packer THEN t ELSE now
  /\ UNCHANGED <<distVars, engine, mode, vehicle, loadingSequence, orders, pc, binPacker, loadPlan,
                 run, firstPlan>>

(* one iteration of the loop of packHorizontalCylinders                    *)
PackHorizontalStep ==
  /\ pc = "cylindrical"
  /\ cylPacker.verticalItems = <<>>
  /\ cylPacker.horizontalItems # <<>>
  /\ \E t \in now..MaxClock :
       LET packer == packHorizontalOne(cylPacker.packer,
                                       Head(cylPacker.horizontalItems), t)
       IN  /\ cylPacker' = [cylPacker EXCEPT
                              !.packer = packer,
                              !.horizontalItems = Tail(@)]
           /\ now' = IF packer # cylPacker.packer THEN t ELSE now
  /\ UNCHANGED <<distVars, engine, mode, vehicle, loadingSequence, orders, pc, binPacker, loadPlan,
                 run, firstPlan>>

(* packCylindricalItems returns and its plan is merged                     *)
PackCylindricalReturn ==
  /\ pc = "cylindrical"
  /\ cylPacker.verticalItems = <<>>
  /\ cylPacker.horizontalItems = <<>>
  /\ loadPlan' = IF Len(cylindricalOrders) > 0
                 THEN mergePlan(vehicle, loadPlan,
                        packCylindricalItems(vehicle, cylPacker.packer.packedItems))
                 ELSE loadPlan
  /\ pc' = "validate"
  /\ UNCHANGED <<distVars, engine, mode, vehicle, loadingSequence, orders, binPacker, cylPacker,
                 now, run, firstPlan>>

(* validateLoadPlan, optimizeLoadSequence and the return of optimizeLoad   *)
ValidateAndSequence ==
  /\ pc = "validate"
  /\ loadPlan' = optimizeLoadSequence(loadingSequence,
                                      validateLoadPlan(vehicle, loadPlan))
  /\ pc' = "done"
  /\ UNCHANGED <<distVars, engine, mode, vehicle, loadingSequence, orders, binPacker, cylPacker,
                 now, run, firstPlan>>

(* the caller keeps the plan and calls optimizeLoad again on the same      *)
(* optimizer and orders                                                    *)
OptimizeLoadAgain ==
  /\ pc = "done"
  /\ run = 1
  /\ firstPlan' = loadPlan
  /\ run' = 2
  /\ pc' = "idle"
  /\ binPacker' = IdleBinPacker
  /\ cylPacker' = IdleCylPacker
  /\ loadPlan' = None
  /\ UNCHANGED <<distVars, engine, mode, vehicle, loadingSequence, orders, now>>

NextLoad ==
  \/ OptimizeLoadStart
  \/ PackCuboidalStep
  \/ PackCuboidalReturn
  \/ PackVerticalStep
  \/ PackHorizontalStep
  \/ PackCylindricalReturn
  \/ ValidateAndSequence
  \/ OptimizeLoadAgain

SpecLoad == InitLoad /\ [][NextLoad]_vars

(***************************************************************************)
(* Properties of optimizeLoad.                                             *)
(***************************************************************************)
Returned == pc = "done"

(* the bounding volume of a placement in the container's millimetre frame: *)
(* the box extent from the position for a cuboidal item (its position is   *)
(* in millimetres), the orientation-dependent bounding box for a cylinder  *)
(* (its position is in metres)                                             *)
BoundingVolume(item) ==
  IF item.materialType = "cuboidal"
  THEN [minX |-> item.position.x \div 1000,
        maxX |-> item.position.x \div 1000 + item.dimensions.length,
        minY |-> item.position.y \div 1000,
        maxY |-> item.position.y \div 1000 + item.dimensions.height,
        minZ |-> item.position.z \div 1000,
        maxZ |-> item.position.z \div 1000 + item.dimensions.width]
  ELSE LET half == item.dimensions.diameter \div 2
           horizontal == item.orientation = "horizontal"
       IN  [minX |-> item.position.x
                       - (IF horizontal THEN item.dimensions.height \div 2 ELSE half),
            maxX |-> item.position.x
                       + (IF horizontal THEN item.dimensions.height \div 2 ELSE half),
            minY |-> item.position.y - (IF horizontal THEN half ELSE 0),
            maxY |-> item.position.y
                       + (IF horizontal THEN half ELSE item.dimensions.height),
            minZ |-> item.position.z - half,
            maxZ |-> item.position.z + half]

Intersecting(a, b) ==
  /\ a.minX < b.maxX /\ b.minX < a.maxX
  /\ a.minY < b.maxY /\ b.minY < a.maxY
  /\ a.minZ < b.maxZ /\ b.minZ < a.maxZ

Placed(id) == \E i \in 1..Len(loadPlan.items) : loadPlan.items[i].id = id

(* C1: no-overlap.  Once optimizeLoad has returned, no two entries of      *)
(* loadPlan.items have intersecting bounding volumes.                      *)
C1_NoOverlap ==
  Returned =>
    \A i, j \in 1..Len(loadPlan.items) :
      i < j => ~Intersecting(BoundingVolume(loadPlan.items[i]),
                             BoundingVolume(loadPlan.items[j]))

(* a returned plan with three placements, one of them skipped over a       *)
(* position that an earlier placement holds                                *)
C1_Witness ==
  /\ Returned
  /\ Len(loadPlan.items) >= 3
  /\ \E i, j \in 1..Len(loadPlan.items) :
       /\ i # j
       /\ loadPlan.items[i].dimensions = loadPlan.items[j].dimensions
       /\ loadPlan.items[i].orientation = loadPlan.items[j].orientation

(* C2: containment.  Once optimizeLoad has returned, the bounding volume   *)
(* of every entry of loadPlan.items lies inside the container on the       *)
(* length, width and height axes.                                          *)
C2_Containment ==
  Returned =>
    \A i \in 1..Len(loadPlan.items) :
      LET b == BoundingVolume(loadPlan.items[i])
      IN  /\ 0 <= b.minX /\ b.maxX <= vehicle.dimensions.length
          /\ 0 <= b.minY /\ b.maxY <= vehicle.dimensions.height
          /\ 0 <= b.minZ /\ b.maxZ <= vehicle.dimensions.width

(* a returned plan in the 2.7 m container for an order list with a         *)
(* nesting cylinder and a larger one under which the nesting position      *)
(* lies far above the roof                                                 *)
C2_Witness ==
  /\ Returned
  /\ vehicle.id = "SXL"
  /\ \E i, j \in 1..Len(loadPlan.items) :
       /\ loadPlan.items[i].nesting
       /\ loadPlan.items[j].dimensions.diameter > loadPlan.items[i].dimensions.diameter
       /\ loadPlan.items[j].dimensions.height - loadPlan.items[i].dimensions.height >= 50
       /\ loadPlan.items[j].orientation # "horizontal"

OnlyBoxes == \A i \in 1..Len(orders) : orders[i].materialType = "cuboidal"

(* total weight and volume below the capacity, every unit fits the empty   *)
(* container                                                               *)
BoxesFit ==
  /\ OnlyBoxes
  /\ calculateTotals(orders).weight < vehicle.maxWeight
  /\ calculateTotals(orders).volume < vehicle.volume
  /\ \A i \in 1..Len(orders) :
       /\ orders[i].dimensions.length <= vehicle.dimensions.length
       /\ orders[i].dimensions.width <= vehicle.dimensions.width
       /\ orders[i].dimensions.height <= vehicle.dimensions.height

UnitsOf(items) == SumSeq([i \in 1..Len(items) |-> items[i].quantity])

(* C3: box orders that fit are placed.  When the box orders fit the        *)
(* container, the returned plan holds as many units as were ordered and    *)
(* reports the weight utilization ordered weight / max weight (6% for      *)
(* three orders of ten 50 kg boxes in a 25000 kg container).               *)
C3_AllUnitsPlaced ==
  (Returned /\ BoxesFit) =>
    /\ UnitsOf(loadPlan.items) = UnitsOf(orders)
    /\ loadPlan.utilization.weight.num * vehicle.maxWeight
         = calculateTotals(orders).weight * loadPlan.utilization.weight.den

(* C4: unplaced orders are reported.  Once optimizeLoad has returned,      *)
(* every order that is absent from loadPlan.items is named by a warning of *)
(* the plan.                                                               *)
C4_UnplacedReported ==
  Returned =>
    \A i \in 1..Len(orders) :
      ~Placed(orders[i].id) =>
        \E w \in 1..Len(loadPlan.warnings) : loadPlan.warnings[w].item = orders[i].id

(* C6: weight conservation.  Before and after the loading-sequence         *)
(* reordering the plan's totalWeight is the sum of weight x quantity over  *)
(* the entries of loadPlan.items.                                          *)
C6_WeightConservation ==
  (pc = "validate" \/ Returned) =>
    loadPlan.totalWeight
      = SumSeq([i \in 1..Len(loadPlan.items) |->
                  loadPlan.items[i].weight * loadPlan.items[i].quantity])

(* a returned plan whose entries the loading sequence has reordered, one   *)
(* of them with a quantity above 1                                         *)
C6_Witness ==
  /\ Returned
  /\ Len(loadPlan.items) >= 2
  /\ [i \in 1..Len(loadPlan.items) |-> loadPlan.items[i].id]
       # [i \in 1..Len(cylPacker.packer.packedItems) |->
            cylPacker.packer.packedItems[i].id]
  /\ \E i \in 1..Len(loadPlan.items) : loadPlan.items[i].quantity > 1

(* what two runs are compared on: the items in their order with their      *)
(* positions, and the warnings                                             *)
PlanView(plan) ==
  [items |-> [i \in 1..Len(plan.items) |->
                [id |-> plan.items[i].id, position |-> plan.items[i].position]],
   warnings |-> plan.warnings]

(* C8: determinism.  The second run of optimizeLoad on the same container, *)
(* constraints and orders returns the plan the first run returned.         *)
C8_Deterministic ==
  (Returned /\ run = 2) => PlanView(loadPlan) = PlanView(firstPlan)

(* two placements of hazardous items whose positions are less than 1000 mm *)
(* apart (positions of the plan are metres, kept in thousandths)           *)
HazardousTooClose(items) ==
  \E i, j \in 1..Len(items) :
    /\ i # j
    /\ items[i].hazardous
    /\ items[j].hazardous
    /\ LET p == items[i].position
           q == items[j].position
       IN  /\ Abs(p.x - q.x) < 1000
           /\ Abs(p.y - q.y) < 1000
           /\ Abs(p.z - q.z) < 1000
           /\ (p.x - q.x) * (p.x - q.x) + (p.y - q.y) * (p.y - q.y)
                + (p.z - q.z) * (p.z - q.z) < 1000 * 1000

(* C12: Scenario D.  A returned plan that places two hazardous items less  *)
(* than 1000 mm apart carries a 'hazardous_separation' violation of        *)
(* severity critical.                                                      *)
C12_HazardousReported ==
  (Returned /\ HazardousTooClose(loadPlan.items)) =>
    \E w \in 1..Len(loadPlan.warnings) :
      /\ loadPlan.warnings[w].type = "hazardous_separation"
      /\ loadPlan.warnings[w].severity = "critical"

(* C13 (Scenario B): whenever the orders given to optimizeLoad contain a   *)
(* fragile cylinder with orientation 'horizontal', the returned plan has a *)
(* 'fragile_horizontal' warning of severity high, whether or not the       *)
(* cylinder was placed, and no fragile cylinder is in loadPlan.items in    *)
(* horizontal orientation at a height y > 0.                               *)
FragileHorizontal(item) ==
  /\ item.materialType = "cylindrical"
  /\ item.orientation = "horizontal"
  /\ item.fragile

C13_FragileHorizontal ==
  Returned =>
    /\ (\E o \in 1..Len(orders) : FragileHorizontal(orders[o])) =>
         \E w \in 1..Len(loadPlan.warnings) :
           /\ loadPlan.warnings[w].type = "fragile_horizontal"
           /\ loadPlan.warnings[w].severity = "high"
    /\ \A i \in 1..Len(loadPlan.items) :
         FragileHorizontal(loadPlan.items[i]) => ~(loadPlan.items[i].position.y > 0)

(* C15: overflow is flagged.  When the orders handed to optimizeLoad weigh *)
(* more than the container's max weight, as the orders of an instance do   *)
(* that took an order through the overflow fallback of the distribution,   *)
(* the returned plan has a warning that is not one of the placement        *)
(* warnings (weight distribution, axle load, stacking, loading sequence,   *)
(* heavy item high, fragile horizontal): a warning about the capacity.     *)
PlacementWarningTypes ==
  {"weight_distribution", "axle_load", "stacking_violation", "loading_sequence",
   "heavy_item_high", "fragile_horizontal"}

OverCapacity(orderList, container) ==
  SumSeq([i \in 1..Len(orderList) |-> orderList[i].weight * orderList[i].quantity])
    > container.maxWeight

C15_OverflowFlagged ==
  (Returned /\ OverCapacity(orders, vehicle)) =>
    \E w \in 1..Len(loadPlan.warnings) :
      loadPlan.warnings[w].type \notin PlacementWarningTypes

(* C16: the loading sequence is a pure permutation.  For every value of    *)
(* loadingSequence the step of optimizeLoad that validates the plan and    *)
(* then calls optimizeLoadSequence leaves in loadPlan.items the same       *)
(* entries, each as often as after validation and with its position, and   *)
(* leaves totalWeight, totalVolume, centerOfGravity, utilization and       *)
(* warnings as validation left them.                                       *)
CountOf(x, s) == Cardinality({i \in 1..Len(s) : s[i] = x})

SameEntries(s, t) ==
  /\ Len(s) = Len(t)
  /\ \A i \in 1..Len(s) : CountOf(s[i], s) = CountOf(s[i], t)

C16_SequenceIsPermutation ==
  [][(pc = "validate" /\ pc' = "done") =>
       LET before == validateLoadPlan(vehicle, loadPlan)
       IN  /\ SameEntries(before.items, loadPlan'.items)
           /\ loadPlan'.totalWeight = before.totalWeight
           /\ loadPlan'.totalVolume = before.totalVolume
           /\ loadPlan'.centerOfGravity = before.centerOfGravity
           /\ loadPlan'.utilization = before.utilization
           /\ loadPlan'.warnings = before.warnings]_vars

(* a returned plan that lists a horizontal cylinder before a vertical one: *)
(* the packer appends vertical cylinders first, so the sequence step has   *)
(* reordered the items                                                     *)
C16_Witness ==
  /\ Returned
  /\ \E i, j \in 1..Len(loadPlan.items) :
       /\ i < j
       /\ loadPlan.items[i].orientation = "horizontal"
       /\ loadPlan.items[j].orientation # "horizontal"

(* C26: nesting placement.  When packVerticalCylinders reaches a           *)
(* nesting-eligible cylinder and an already placed cylinder has a larger   *)
(* diameter and at least 50 mm more height, the iteration places the unit  *)
(* nested on such a host: at the height the code computes for the host's   *)
(* top plane and horizontally within the host's radius, not on a ring.     *)
NestedOn(baseItem, position) ==
  /\ position.y = baseItem.position.y + FP(baseItem.dimensions.height)
  /\ Abs(position.x - baseItem.position.x) * 2 <= baseItem.dimensions.diameter
  /\ Abs(position.z - baseItem.position.z) * 2 <= baseItem.dimensions.diameter
  /\ 4 * ((position.x - baseItem.position.x) * (position.x - baseItem.position.x)
          + (position.z - baseItem.position.z) * (position.z - baseItem.position.z))
       <= baseItem.dimensions.diameter * baseItem.dimensions.diameter

C26_NestedOnHost ==
  [][(/\ mode = "load"
      /\ pc = "cylindrical"
      /\ cylPacker.verticalItems # <<>>
      /\ cylPacker'.verticalItems = Tail(cylPacker.verticalItems)
      /\ Head(cylPacker.verticalItems).nesting
      /\ findNestingCompatibleItems(cylPacker.packer,
                                    Head(cylPacker.verticalItems)) # <<>>)
     => LET hosts == findNestingCompatibleItems(cylPacker.packer,
                                                Head(cylPacker.verticalItems))
            before == cylPacker.packer.packedItems
            after == cylPacker'.packer.packedItems
        IN  /\ Len(after) = Len(before) + 1
            /\ after[Len(after)].id = Head(cylPacker.verticalItems).id
            /\ \E h \in 1..Len(hosts) :
                 NestedOn(hosts[h], after[Len(after)].position)]_vars

(* C27: ring placement completeness.  The iteration of                     *)
(* packVerticalCylinders that handles a vertical cylinder in an empty      *)
(* container places it, whenever the cylinder's diameter is at most the    *)
(* container's length and width and its height at most the container's     *)
(* height.                                                                 *)
C27_FirstCylinderPlaced ==
  [][(/\ mode = "load"
      /\ pc = "cylindrical"
      /\ cylPacker.verticalItems # <<>>
      /\ cylPacker'.verticalItems = Tail(cylPacker.verticalItems)
      /\ cylPacker.packer.packedItems = <<>>
      /\ cylPacker.packer.existingItems = <<>>
      /\ Head(cylPacker.verticalItems).dimensions.diameter
           <= cylPacker.packer.container.length
      /\ Head(cylPacker.verticalItems).dimensions.diameter
           <= cylPacker.packer.container.width
      /\ Head(cylPacker.verticalItems).dimensions.height
           <= cylPacker.packer.container.height)
     => /\ Len(cylPacker'.packer.packedItems) = 1
        /\ cylPacker'.packer.packedItems[1].id = Head(cylPacker.verticalItems).id]_vars

(***************************************************************************)
(* vehicleOptimization.js (src/unnamed/part_003).  Weights are whole       *)
(* kilograms.  Volumes are whole litres: the code's cubic metres times     *)
(* 1000, an order's volume rounded down to the litre.                      *)
(***************************************************************************)
calculateOrderWeightAndVolume(order) ==
  [orderWeight |-> order.weight * order.quantity,
   orderVolume |->
     IF order.materialType = "cuboidal"
     THEN (CuboidVolumeCm3(order.dimensions) * order.quantity) \div 1000
     ELSE IF order.materialType = "cylindrical"
     THEN ((355 * (order.dimensions.diameter \div 20)
                * (order.dimensions.diameter \div 20)
                * (order.dimensions.height \div 10) * order.quantity) \div 113)
            \div 1000
     ELSE 0]

calculateOrderTotals(os) ==
  [totalWeight |->
     SumSeq([i \in 1..Len(os) |-> calculateOrderWeightAndVolume(os[i]).orderWeight]),
   totalVolume |->
     SumSeq([i \in 1..Len(os) |-> calculateOrderWeightAndVolume(os[i]).orderVolume])]

sortedVehicles(vehicleTypes) == Sort("efficiency", vehicleTypes)

(* a suggestion object; utilizations and scores are percentages            *)
Suggestion(vehicles, totalCost, weightUtil, volumeUtil, efficiency, strategy) ==
  [vehicles |-> vehicles,
   totalCost |-> totalCost,
   weightUtilization |-> weightUtil,
   volumeUtilization |-> volumeUtil,
   efficiency |-> efficiency,
   efficiencyScore |-> RatSub(efficiency, Rat(totalCost, 10)),
   strategy |-> strategy]

(* Strategy 1: single vehicle solutions                                    *)
singleVehicleSolutions(totals, sorted) ==
  LET fits == SelectSeq(sorted, LAMBDA v : /\ totals.totalWeight <= v.maxWeight
                                           /\ totals.totalVolume <= v.volume)
  IN  [i \in 1..Len(fits) |->
         LET weightUtil == Rat(100 * totals.totalWeight, fits[i].maxWeight)
             volumeUtil == Rat(100 * totals.totalVolume, fits[i].volume)
         IN  Suggestion(<<[type |-> fits[i].id, quantity |-> 1]>>,
                        fits[i].costPerKm, weightUtil, volumeUtil,
                        RatMax(weightUtil, volumeUtil), "single")]

(* the vehicles needed counted by weight alone                             *)
vehiclesNeeded_weightOnly(totals, v) ==
  CeilDiv(totals.totalWeight, v.maxWeight)

vehiclesNeeded(totals, v) ==
  Max(CeilDiv(totals.totalWeight, v.maxWeight), CeilDiv(totals.totalVolume, v.volume))

(* Strategy 2: several vehicles of one type                                *)
multiVehicleSolutions(totals, sorted) ==
  LET some == SelectSeq(sorted, LAMBDA v : /\ vehiclesNeeded(totals, v) > 1
                                           /\ vehiclesNeeded(totals, v) <= 5)
  IN  [i \in 1..Len(some) |->
         LET n == vehiclesNeeded(totals, some[i])
             weightUtil == Rat(100 * totals.totalWeight, some[i].maxWeight * n)
             volumeUtil == Rat(100 * totals.totalVolume, some[i].volume * n)
         IN  Suggestion(<<[type |-> some[i].id, quantity |-> n]>>,
                        some[i].costPerKm * n, weightUtil, volumeUtil,
                        RatMax(weightUtil, volumeUtil), "multi-same")]

(* Strategy 3: the last and the first vehicle of the sorted list           *)
mixedVehicleSolutions(totals, sorted) ==
  IF ~(totals.totalWeight > 0 /\ Len(sorted) >= 2) THEN <<>>
  ELSE
    LET largestVehicle == sorted[Len(sorted)]
        smallestVehicle == sorted[1]
        largeVehiclesNeeded == totals.totalWeight \div largestVehicle.maxWeight
        remainingWeight ==
          totals.totalWeight - largeVehiclesNeeded * largestVehicle.maxWeight
        remainingVolume ==
          totals.totalVolume - largeVehiclesNeeded * largestVehicle.volume
        smallVehiclesNeeded ==
          Max(CeilDiv(remainingWeight, smallestVehicle.maxWeight),
              CeilDiv(remainingVolume, smallestVehicle.volume))
    IN  IF largeVehiclesNeeded > 0 /\ remainingWeight > 0 /\ smallVehiclesNeeded <= 3
        THEN <<Suggestion(
                 <<[type |-> largestVehicle.id, quantity |-> largeVehiclesNeeded],
                   [type |-> smallestVehicle.id, quantity |-> smallVehiclesNeeded]>>,
                 largestVehicle.costPerKm * largeVehiclesNeeded
                   + smallestVehicle.costPerKm * smallVehiclesNeeded,
                 Rat(85, 1), Rat(85, 1), Rat(85, 1), "mixed")>>
        ELSE <<>>

RECURSIVE ConcatUpTo(_, _)
ConcatUpTo(f, n) == IF n = 0 THEN <<>> ELSE ConcatUpTo(f, n - 1) \o f[n]

(* Strategy 4: the loops over i <= j, qty1 in 1..3 and qty2 in 0..3, in    *)
(* loop order; then the two cheapest                                       *)
costOptimizedSolutions(totals, sorted) ==
  LET n == Len(sorted)
      Combination(k) ==
        LET i == (k \div (12 * n)) + 1
            j == ((k \div 12) % n) + 1
            qty1 == ((k \div 4) % 3) + 1
            qty2 == k % 4
            vehicle1 == sorted[i]
            vehicle2 == sorted[j]
            totalCapacityWeight == vehicle1.maxWeight * qty1 + vehicle2.maxWeight * qty2
            totalCapacityVolume == vehicle1.volume * qty1 + vehicle2.volume * qty2
            weightUtil == Rat(100 * totals.totalWeight, totalCapacityWeight)
            volumeUtil == Rat(100 * totals.totalVolume, totalCapacityVolume)
            efficiency == RatMax(weightUtil, volumeUtil)
        IN  IF /\ j >= i
               /\ totalCapacityWeight >= totals.totalWeight
               /\ totalCapacityVolume >= totals.totalVolume
               /\ ~RatLess(efficiency, Rat(60, 1))
            THEN <<Suggestion(
                     <<[type |-> vehicle1.id, quantity |-> qty1]>>
                       \o (IF qty2 > 0 THEN <<[type |-> vehicle2.id, quantity |-> qty2]>>
                           ELSE <<>>),
                     vehicle1.costPerKm * qty1 + vehicle2.costPerKm * qty2,
                     weightUtil, volumeUtil, efficiency, "cost-optimized")>>
            ELSE <<>>
      all == ConcatUpTo([k \in 1..(12 * n * n) |-> Combination(k - 1)], 12 * n * n)
      cheapest == Sort("totalCost", all)
  IN  SubSeq(cheapest, 1, Min(2, Len(cheapest)))

(* the suggestions before the final sort of generateVehicleSuggestions     *)
suggestions(os, vehicleTypes) ==
  LET totals == calculateOrderTotals(os)
      sorted == sortedVehicles(vehicleTypes)
      single == singleVehicleSolutions(totals, sorted)
  IN  IF totals.totalWeight = 0 THEN <<>>
      ELSE single
             \o (IF Len(single) = 0 THEN multiVehicleSolutions(totals, sorted) ELSE <<>>)
             \o mixedVehicleSolutions(totals, sorted)
             \o costOptimizedSolutions(totals, sorted)

(* whether the comparator named by tag is a consistent ordering of the     *)
(* elements of list                                                        *)
ConsistentComparator(tag, list) ==
  LET I == 1..Len(list)
      lt(i, j) == Less(tag, list[i], list[j])
      eq(i, j) == ~lt(i, j) /\ ~lt(j, i)
  IN  /\ \A i, j \in I : ~(lt(i, j) /\ lt(j, i))
      /\ \A i, j, k \in I : (lt(i, j) /\ lt(j, k)) => lt(i, k)
      /\ \A i, j, k \in I : (eq(i, j) /\ eq(j, k)) => eq(i, k)

(* generateVehicleSuggestions: the lists it can return.  Where the         *)
(* comparator of its final sort is a consistent ordering of the            *)
(* suggestions the result is the stable arrangement; where it is not, the  *)
(* language leaves the arrangement to the engine, and every suggestion can *)
(* come first.  The list is cut to four entries.                           *)
generateVehicleSuggestions(os, vehicleTypes) ==
  LET list == suggestions(os, vehicleTypes)
      top(l) == SubSeq(l, 1, Min(4, Len(l)))
      sorted == Sort("suggestion", list)
  IN  IF ConsistentComparator("suggestion", list) THEN {top(sorted)}
      ELSE {top(<<list[i]>> \o SelectSeq(sorted, LAMBDA x : x # list[i])) :
              i \in 1..Len(list)}

(* groupOrdersByRoute with every order filed under the first route         *)
groupOrdersByRoute_single(os) ==
  IF os = <<>> THEN <<>> ELSE <<[route |-> Head(os).route, orders |-> os]>>

(* groupOrdersByRoute: the entries of the grouped object, in the order     *)
(* Object.entries lists them (first appearance of the route)               *)
RECURSIVE groupOrdersByRoute(_)
groupOrdersByRoute(os) ==
  IF os = <<>> THEN <<>>
  ELSE LET route == Head(os).route
       IN  <<[route |-> route,
              orders |-> SelectSeq(os, LAMBDA o : o.route = route)]>>
             \o groupOrdersByRoute(SelectSeq(os, LAMBDA o : o.route # route))

(* generateDropPoints with maxDropPoints = 1, the default                  *)
generateDropPoints(os) ==
  LET grouped == groupOrdersByRoute(os)
  IN  [i \in 1..Len(grouped) |->
         LET first == grouped[i].orders[1]
         IN  [id |-> <<"DP", grouped[i].route>>,
              location |-> IF first.delivery # Undefined THEN first.delivery
                           ELSE "Unknown",
              route |-> grouped[i].route,
              orders |-> grouped[i].orders]]

(* the loop of createVehicleInstances, the counter standing at `counter`   *)
createVehicleInstances(quantity, vehicleType, counter) ==
  [i \in 1..quantity |->
     [id |-> counter + i - 1,
      type |-> vehicleType.id,
      vehicleType |-> vehicleType,
      maxWeight |-> vehicleType.maxWeight,
      maxVolume |-> vehicleType.volume,
      currentWeight |-> 0,
      currentVolume |-> 0,
      orders |-> <<>>,
      route |-> Undefined,
      dropPoints |-> <<>>]]

findVehicleType(vehicleTypes, type) ==
  vehicleTypes[CHOOSE i \in 1..Len(vehicleTypes) : vehicleTypes[i].id = type]

(* the sort at the head of distributeOrdersForRoute                        *)
sortedOrders(sequence, routeOrders) ==
  CASE sequence = "lifo" -> Sort("weight", routeOrders)
    [] sequence = "fifo" -> Sort("lightest", routeOrders)
    [] sequence = "route" -> routeOrders
    [] sequence = "weight" -> Sort("weight", routeOrders)
    [] sequence = "priority" -> Sort("priority", routeOrders)
    [] OTHER -> routeOrders

(* wouldFitWeight && wouldFitVolume with the weight test left out          *)
wouldFit_volumeOnly(v, order) ==
  v.currentVolume + calculateOrderWeightAndVolume(order).orderVolume <= v.maxVolume

(* wouldFitWeight && wouldFitVolume                                        *)
wouldFit(v, order) ==
  /\ v.currentWeight + calculateOrderWeightAndVolume(order).orderWeight <= v.maxWeight
  /\ v.currentVolume + calculateOrderWeightAndVolume(order).orderVolume <= v.maxVolume

currentUtilization(v) ==
  RatMax(Rat(v.currentWeight, v.maxWeight), Rat(v.currentVolume, v.maxVolume))

(* Math.min(maxWeight - currentWeight, maxVolume - currentVolume), the     *)
(* first in kilograms and the second in cubic metres; times 1000           *)
remainingCapacity(v) ==
  Min(1000 * (v.maxWeight - v.currentWeight), v.maxVolume - v.currentVolume)

(* first fit: the first instance of the pool that can take the order       *)
bestVehicle_firstFit(objects, pool, order) ==
  LET fitting == {i \in 1..Len(pool) : wouldFit(objects[pool[i]], order)}
      most == {i \in 1..Len(pool) :
                 \A j \in 1..Len(pool) :
                   /\ remainingCapacity(objects[pool[i]])
                        >= remainingCapacity(objects[pool[j]])
                   /\ (j < i => remainingCapacity(objects[pool[j]])
                                  < remainingCapacity(objects[pool[i]]))}
  IN  IF fitting # {} THEN pool[CHOOSE i \in fitting : \A j \in fitting : i <= j]
      ELSE pool[CHOOSE i \in most : TRUE]

(* the vehicle one iteration of the best-fit loop chooses: among the       *)
(* instances of the pool that can take the order the first of the highest  *)
(* utilization; if none can, the first of the greatest remaining capacity  *)
bestVehicle(objects, pool, order) ==
  LET fitting == {i \in 1..Len(pool) : wouldFit(objects[pool[i]], order)}
      best == {i \in fitting :
                 \A j \in fitting :
                   /\ ~RatLess(currentUtilization(objects[pool[i]]),
                               currentUtilization(objects[pool[j]]))
                   /\ (j < i => RatLess(currentUtilization(objects[pool[j]]),
                                        currentUtilization(objects[pool[i]])))}
      most == {i \in 1..Len(pool) :
                 \A j \in 1..Len(pool) :
                   /\ remainingCapacity(objects[pool[i]])
                        >= remainingCapacity(objects[pool[j]])
                   /\ (j < i => remainingCapacity(objects[pool[j]])
                                  < remainingCapacity(objects[pool[i]]))}
  IN  IF fitting # {} THEN pool[CHOOSE i \in best : TRUE]
      ELSE pool[CHOOSE i \in most : TRUE]

(* the assignment at the end of one iteration                              *)
assignOrder(v, order) ==
  [v EXCEPT !.orders = Append(@, order),
            !.currentWeight = @ + calculateOrderWeightAndVolume(order).orderWeight,
            !.currentVolume = @ + calculateOrderWeightAndVolume(order).orderVolume,
            !.route = order.route]

(* one entry of the array distributeOrdersAcrossVehicles returns           *)
finalFormat(v, dropPointsData, sequence) ==
  [id |-> v.id,
   type |-> v.type,
   name |-> v.vehicleType.name,
   route |-> IF v.route # Undefined THEN v.route
             ELSE IF Len(v.orders) > 0 THEN v.orders[1].route ELSE "DEL-MUM",
   utilization |-> [volume |-> Ratio(v.currentVolume, v.maxVolume),
                    weight |-> Ratio(v.currentWeight, v.maxWeight)],
   orders |-> v.orders,
   dropPoints |->
     IF Len(v.orders) > 0
     THEN SelectSeq(dropPointsData,
                    LAMBDA dp : \E i \in 1..Len(dp.orders), j \in 1..Len(v.orders) :
                                  v.orders[j].id = dp.orders[i].id)
     ELSE <<>>,
   capacity |-> [maxWeight |-> v.maxWeight, maxVolume |-> v.maxVolume,
                 currentWeight |-> v.currentWeight,
                 currentVolume |-> v.currentVolume],
   loadingSequence |-> sequence]

(***************************************************************************)
(* Inputs of vehicle distribution: the vehicle types and the orders of     *)
(* vehicleOptimization.test.js (volumes in litres) with the priorities     *)
(* parsePriority of excelParser.js gives, one order heavier than six of    *)
(* the small vehicles, and one light order.                                *)
(***************************************************************************)
mockVehicleTypes ==
  <<[id |-> "TATA_ACE", name |-> "Tata Ace", maxWeight |-> 750, volume |-> 4600,
     costPerKm |-> 12],
    [id |-> "SXL", name |-> "SXL Container", maxWeight |-> 25000, volume |-> 38500,
     costPerKm |-> 25]>>

mockOrdersMultiRoute ==
  <<[id |-> "SO001", route |-> "DEL-MUM", quantity |-> 50, weight |-> 25,
     materialType |-> "cuboidal",
     dimensions |-> [length |-> 600, width |-> 400, height |-> 300],
     priority |-> "low", delivery |-> "Mumbai"],
    [id |-> "SO002", route |-> "DEL-MUM", quantity |-> 30, weight |-> 15,
     materialType |-> "cylindrical", dimensions |-> [diameter |-> 500, height |-> 800],
     priority |-> "high", delivery |-> Undefined],
    [id |-> "SO003", route |-> "DEL-HYD", quantity |-> 40, weight |-> 20,
     materialType |-> "cuboidal",
     dimensions |-> [length |-> 500, width |-> 300, height |-> 400],
     priority |-> "medium", delivery |-> Undefined],
    [id |-> "SO004", route |-> "DEL-HYD", quantity |-> 25, weight |-> 12,
     materialType |-> "cylindrical", dimensions |-> [diameter |-> 400, height |-> 600],
     priority |-> "high", delivery |-> Undefined],
    [id |-> "SO005", route |-> "DEL-CHE", quantity |-> 35, weight |-> 18,
     materialType |-> "cuboidal",
     dimensions |-> [length |-> 700, width |-> 500, height |-> 350],
     priority |-> "low", delivery |-> Undefined]>>

heavyOrder ==
  [id |-> "SO006", route |-> "DEL-CHE", quantity |-> 50, weight |-> 100,
   materialType |-> "cuboidal",
   dimensions |-> [length |-> 600, width |-> 400, height |-> 300],
   priority |-> Undefined, delivery |-> "Chennai"]

(* a small order that fits next to any other order of the catalog           *)
lightOrder ==
  [id |-> "SO007", route |-> "DEL-CHE", quantity |-> 10, weight |-> 10,
   materialType |-> "cuboidal",
   dimensions |-> [length |-> 300, width |-> 200, height |-> 200],
   priority |-> "medium", delivery |-> "Chennai"]

DistOrderCatalog == mockOrdersMultiRoute \o <<heavyOrder, lightOrder>>

(* the orders of the catalog picked by the index set S, in catalog order   *)
RECURSIVE PickOrders(_, _)
PickOrders(S, i) ==
  IF i > Len(DistOrderCatalog) THEN <<>>
  ELSE (IF i \in S THEN <<DistOrderCatalog[i]>> ELSE <<>>) \o PickOrders(S, i + 1)

DistOrderLists ==
  {PickOrders(S, 1) : S \in {T \in SUBSET (1..Len(DistOrderCatalog)) :
                               Cardinality(T) \in 1..MaxDistOrders}}

VehicleTypeCatalogs == {mockVehicleTypes, SubSeq(mockVehicleTypes, 1, 1)}

VehicleConfigs(vehicleTypes) ==
  {<<[type |-> vehicleTypes[i].id, quantity |-> q]>> :
     i \in 1..Len(vehicleTypes), q \in 1..MaxPool}
  \cup (IF Len(vehicleTypes) >= 2
        THEN {<<[type |-> vehicleTypes[2].id, quantity |-> q[1]],
                [type |-> vehicleTypes[1].id, quantity |-> q[2]]>> :
                q \in (1..MaxPool) \X (1..MaxPool)}
        ELSE {})

DistInputs ==
  UNION {[orders : DistOrderLists,
          vehicleTypes : {types},
          vehicleConfig : VehicleConfigs(types),
          routeStrategy : {"separate", "consolidate"},
          loadingSequence : LoadingSequences,
          allowMixedRoutes : BOOLEAN] : types \in VehicleTypeCatalogs}

(***************************************************************************)
(* distributeOrdersAcrossVehicles, step by step.  `work` holds the loops   *)
(* in progress: groups, the route groups not yet distributed; vcs, the     *)
(* vehicle selections of the current route not yet used; pool, the         *)
(* instances handed to the current call of distributeOrdersForRoute;       *)
(* sortedOrders, the orders that call has not yet assigned.                *)
(***************************************************************************)
InitDist ==
  /\ mode = "distribute"
  /\ vehicle = None
  /\ loadingSequence = Undefined
  /\ orders = <<>>
  /\ pc = "idle"
  /\ binPacker = IdleBinPacker
  /\ cylPacker = IdleCylPacker
  /\ loadPlan = None
  /\ now = 0
  /\ run = 1
  /\ firstPlan = None
  /\ distInput \in DistInputs
  /\ heap = <<>>
  /\ allVehicleInstances = <<>>
  /\ work = [groups |-> <<>>, vcs |-> <<>>, pool |-> <<>>, sortedOrders |-> <<>>]
  /\ dpc = "idle"
  /\ result = <<>>
  /\ engine = None

RECURSIVE createPool(_, _, _)
(* the shared pool of the consolidate strategy                             *)
createPool(vehicleConfig, vehicleTypes, instances) ==
  IF vehicleConfig = <<>> THEN instances
  ELSE createPool(Tail(vehicleConfig), vehicleTypes,
         instances \o createVehicleInstances(
                        Head(vehicleConfig).quantity,
                        findVehicleType(vehicleTypes, Head(vehicleConfig).type),
                        Len(instances) + 1))

(* the entry of distributeOrdersAcrossVehicles up to the first loop        *)
DistributeStart ==
  /\ dpc = "idle"
  /\ IF distInput.routeStrategy = "separate"
     THEN /\ heap' = <<>>
          /\ work' = [work EXCEPT !.groups = groupOrdersByRoute(distInput.orders)]
     ELSE LET instances == createPool(distInput.vehicleConfig,
                                      distInput.vehicleTypes, <<>>)
          IN  /\ heap' = instances
              /\ work' = [work EXCEPT
                   !.pool = [i \in 1..Len(instances) |-> i],
                   !.groups = IF distInput.allowMixedRoutes
                              THEN <<[route |-> Undefined, orders |-> distInput.orders]>>
                              ELSE groupOrdersByRoute(distInput.orders)]
  /\ dpc' = "next"
  /\ UNCHANGED <<loadVars, engine, mode, distInput, allVehicleInstances, result>>

(* separate strategy: the vehicle selections for the next route, from the  *)
(* best suggestion or, without one, from vehicleConfig                     *)
BeginRoute ==
  /\ dpc = "next"
  /\ distInput.routeStrategy = "separate"
  /\ work.groups # <<>>
  /\ \E routeVehicleSuggestions \in
          generateVehicleSuggestions(Head(work.groups).orders, distInput.vehicleTypes) :
       work' = [work EXCEPT !.vcs =
                  IF routeVehicleSuggestions # <<>>
                  THEN routeVehicleSuggestions[1].vehicles
                  ELSE distInput.vehicleConfig]
  /\ dpc' = "vc"
  /\ UNCHANGED <<loadVars, engine, mode, distInput, heap, allVehicleInstances, result>>

(* separate strategy: fresh instances for one vehicle selection and the    *)
(* head of distributeOrdersForRoute                                        *)
BeginCall ==
  /\ dpc = "vc"
  /\ work.vcs # <<>>
  /\ LET vc == Head(work.vcs)
         routeVehicles ==
           createVehicleInstances(vc.quantity,
                                  findVehicleType(distInput.vehicleTypes, vc.type),
                                  Len(heap) + 1)
     IN  /\ heap' = heap \o routeVehicles
         /\ work' = [work EXCEPT
              !.vcs = Tail(@),
              !.pool = [i \in 1..Len(routeVehicles) |-> Len(heap) + i],
              !.sortedOrders = sortedOrders(distInput.loadingSequence,
                                            Head(work.groups).orders)]
  /\ dpc' = "assign"
  /\ UNCHANGED <<loadVars, engine, mode, distInput, allVehicleInstances, result>>

(* consolidate strategy: the head of distributeOrdersForRoute on the       *)
(* shared pool                                                             *)
BeginSharedCall ==
  /\ dpc = "next"
  /\ distInput.routeStrategy # "separate"
  /\ work.groups # <<>>
  /\ work' = [work EXCEPT
       !.sortedOrders = sortedOrders(distInput.loadingSequence,
                                     Head(work.groups).orders)]
  /\ dpc' = "assign"
  /\ UNCHANGED <<loadVars, engine, mode, distInput, heap, allVehicleInstances, result>>

(* one iteration of the best-fit loop of distributeOrdersForRoute          *)
AssignOrder ==
  /\ dpc = "assign"
  /\ work.sortedOrders # <<>>
  /\ LET order == Head(work.sortedOrders)
         best == bestVehicle(heap, work.pool, order)
     IN  /\ heap' = [heap EXCEPT ![best] = assignOrder(@, order)]
         /\ work' = [work EXCEPT !.sortedOrders = Tail(@)]
  /\ UNCHANGED <<loadVars, engine, mode, distInput, allVehicleInstances, dpc, result>>

(* distributeOrdersForRoute returns the instances that hold orders; they   *)
(* are pushed to allVehicleInstances                                       *)
EndCall ==
  /\ dpc = "assign"
  /\ work.sortedOrders = <<>>
  /\ allVehicleInstances' =
       allVehicleInstances \o SelectSeq(work.pool, LAMBDA v : Len(heap[v].orders) > 0)
  /\ IF distInput.routeStrategy = "separate" /\ work.vcs # <<>>
     THEN /\ dpc' = "vc"
          /\ work' = work
     ELSE /\ dpc' = "next"
          /\ work' = [work EXCEPT !.groups = Tail(@)]
  /\ UNCHANGED <<loadVars, engine, mode, distInput, heap, result>>

(* the drop points are assigned and the instances converted to the final   *)
(* format                                                                  *)
DistributeReturn ==
  /\ dpc = "next"
  /\ work.groups = <<>>
  /\ result' = [i \in 1..Len(allVehicleInstances) |->
                  finalFormat(heap[allVehicleInstances[i]],
                              generateDropPoints(distInput.orders),
                              distInput.loadingSequence)]
  /\ dpc' = "done"
  /\ UNCHANGED <<loadVars, engine, mode, distInput, heap, allVehicleInstances, work>>

NextDist ==
  \/ DistributeStart
  \/ BeginRoute
  \/ BeginCall
  \/ BeginSharedCall
  \/ AssignOrder
  \/ EndCall
  \/ DistributeReturn

SpecDist == InitDist /\ [][NextDist]_vars

(***************************************************************************)
(* Properties of distributeOrdersAcrossVehicles.                           *)
(***************************************************************************)
Distributed == dpc = "done"

OneRoute(os) == \A i, j \in 1..Len(os) : os[i].route = os[j].route

(* the instance can take the order within its max weight and max volume    *)
CanTake(v, order) ==
  /\ v.currentWeight + order.weight * order.quantity <= v.maxWeight
  /\ v.currentVolume + calculateOrderWeightAndVolume(order).orderVolume <= v.maxVolume

C9_SeparateKeepsRoutesApart ==
  (Distributed /\ distInput.routeStrategy = "separate") =>
    \A i \in 1..Len(result) :
      /\ Len(result[i].orders) > 0
      /\ \A j \in 1..Len(result[i].orders) :
           result[i].orders[j].route = result[i].route

(* a separate distribution that returned instances of two routes, one of   *)
(* them with two orders                                                    *)
C9_Witness ==
  /\ Distributed
  /\ distInput.routeStrategy = "separate"
  /\ \E i, j \in 1..Len(result) :
       /\ result[i].route # result[j].route
       /\ Len(result[i].orders) >= 2

(* C10: consolidate without mixed routes keeps routes segregated.  No      *)
(* instance returned under routeStrategy 'consolidate' with                *)
(* allowMixedRoutes = false holds orders of two routes.                    *)
C10_ConsolidateSegregatesRoutes ==
  (/\ Distributed
   /\ distInput.routeStrategy = "consolidate"
   /\ ~distInput.allowMixedRoutes) =>
    \A i \in 1..Len(result) : OneRoute(result[i].orders)

(* the route's orders weigh more than any one vehicle type carries, and    *)
(* two vehicles of the type with the smallest max weight hold them         *)
NeedsTwoOfSmallest(routeOrders, vehicleTypes) ==
  LET totals == calculateOrderTotals(routeOrders)
      smallest == CHOOSE i \in 1..Len(vehicleTypes) :
                    \A j \in 1..Len(vehicleTypes) :
                      vehicleTypes[i].maxWeight <= vehicleTypes[j].maxWeight
  IN  /\ \A j \in 1..Len(vehicleTypes) :
           totals.totalWeight > vehicleTypes[j].maxWeight
      /\ totals.totalWeight <= 2 * vehicleTypes[smallest].maxWeight
      /\ totals.totalVolume <= 2 * vehicleTypes[smallest].volume

(* C11: Scenario C.  Under routeStrategy 'separate', a route whose orders  *)
(* outweigh every single vehicle type but fit two vehicles of the smallest *)
(* type gets exactly two returned instances, both below 100% weight        *)
(* utilization.                                                            *)
C11_ScenarioC ==
  (Distributed /\ distInput.routeStrategy = "separate") =>
    \A g \in 1..Len(groupOrdersByRoute(distInput.orders)) :
      LET group == groupOrdersByRoute(distInput.orders)[g]
          forRoute == {i \in 1..Len(result) : result[i].route = group.route}
      IN  NeedsTwoOfSmallest(group.orders, distInput.vehicleTypes) =>
            /\ Cardinality(forRoute) = 2
            /\ \A i \in forRoute :
                 result[i].capacity.currentWeight < result[i].capacity.maxWeight

(* C14: best-fit rule.  A step of distributeOrdersForRoute that assigns    *)
(* an order while some instance of the pool can take it within its         *)
(* remaining weight and volume assigns it to such an instance, one of the  *)
(* highest utilization max(currentWeight/maxWeight, currentVolume/         *)
(* maxVolume) before the step and the earliest of the pool among those; a  *)
(* loaded instance that can take the order is preferred over an empty one. *)
UtilizationOf(v) ==
  RatMax(Rat(v.currentWeight, v.maxWeight), Rat(v.currentVolume, v.maxVolume))

C14_BestFit ==
  [][\A v \in 1..Len(heap) :
       Len(heap'[v].orders) > Len(heap[v].orders) =>
         LET order == Head(work.sortedOrders)
             fits == {u \in 1..Len(work.pool) : CanTake(heap[work.pool[u]], order)}
         IN  fits # {} =>
               /\ \E p \in fits :
                    /\ work.pool[p] = v
                    /\ \A u \in fits :
                         /\ ~RatLess(UtilizationOf(heap[v]),
                                     UtilizationOf(heap[work.pool[u]]))
                         /\ (u < p => RatLess(UtilizationOf(heap[work.pool[u]]),
                                              UtilizationOf(heap[v])))
               /\ (\E u \in fits : heap[work.pool[u]].orders # <<>>)
                    => heap[v].orders # <<>>]_vars

(* an order went to a later instance of the pool that was already loaded,  *)
(* although an earlier instance could have taken it as well                *)
C14_Witness ==
  /\ dpc = "assign"
  /\ \E i, j \in 1..Len(work.pool) :
       /\ i < j
       /\ Len(heap[work.pool[i]].orders) = 1
       /\ Len(heap[work.pool[j]].orders) >= 2
       /\ CanTake(heap[work.pool[i]],
                  heap[work.pool[j]].orders[Len(heap[work.pool[j]].orders)])

(* C17: loading sequence by weight in the distribution.  In every instance *)
(* distributeOrdersAcrossVehicles returns, for every route strategy, the   *)
(* orders are in non-increasing order of weight x quantity with            *)
(* loadingSequence 'lifo' or 'weight', in non-decreasing order with        *)
(* 'fifo', and in the order of the input with 'route'.                     *)
OrderWeight(order) == order.weight * order.quantity

InputIndex(order) ==
  CHOOSE k \in 1..Len(distInput.orders) : distInput.orders[k].id = order.id

C17_SequenceByWeight ==
  Distributed =>
    \A i \in 1..Len(result) :
      \A a, b \in 1..Len(result[i].orders) :
        a < b =>
          LET first == result[i].orders[a]
              second == result[i].orders[b]
          IN  /\ distInput.loadingSequence \in {"lifo", "weight"}
                   => OrderWeight(first) >= OrderWeight(second)
              /\ distInput.loadingSequence = "fifo"
                   => OrderWeight(first) <= OrderWeight(second)
              /\ distInput.loadingSequence = "route"
                   => InputIndex(first) < InputIndex(second)

(* C18: priority-based sequence.  With loadingSequence 'priority' and      *)
(* orders whose priority is 'high', 'medium' or 'low', in every returned   *)
(* instance an order appended by one call of distributeOrdersForRoute      *)
(* before another order of that call has at least the other's priority:    *)
(* every high before every medium, every medium before every low.          *)
PriorityRank(order) ==
  CASE order.priority = "high" -> 3
    [] order.priority = "medium" -> 2
    [] order.priority = "low" -> 1

SameCall(first, second) ==
  \/ distInput.routeStrategy = "consolidate" /\ distInput.allowMixedRoutes
  \/ first.route = second.route

C18_PrioritySequence ==
  (/\ Distributed
   /\ distInput.loadingSequence = "priority"
   /\ \A k \in 1..Len(distInput.orders) :
        distInput.orders[k].priority \in {"high", "medium", "low"}) =>
    \A i \in 1..Len(result) :
      \A a, b \in 1..Len(result[i].orders) :
        (a < b /\ SameCall(result[i].orders[a], result[i].orders[b])) =>
          PriorityRank(result[i].orders[a]) >= PriorityRank(result[i].orders[b])

(* C19: suggestions are feasible.  For the orders of the input and for the *)
(* orders of each of its routes, every list generateVehicleSuggestions can *)
(* return has at most 4 suggestions, each naming vehicle types and         *)
(* quantities whose max weights add up to at least the orders' total       *)
(* weight and whose volumes add up to at least their total volume; for no  *)
(* orders, which weigh 0, the list is empty.  The function is pure and the *)
(* input does not change, so it is evaluated once per run, on return.      *)
CombinedCapacity(suggestion, vehicleTypes) ==
  [weight |->
     SumSeq([k \in 1..Len(suggestion.vehicles) |->
               suggestion.vehicles[k].quantity
                 * findVehicleType(vehicleTypes, suggestion.vehicles[k].type).maxWeight]),
   volume |->
     SumSeq([k \in 1..Len(suggestion.vehicles) |->
               suggestion.vehicles[k].quantity
                 * findVehicleType(vehicleTypes, suggestion.vehicles[k].type).volume])]

FeasibleSuggestions(os, vehicleTypes) ==
  \A list \in generateVehicleSuggestions(os, vehicleTypes) :
    /\ Len(list) <= 4
    /\ calculateOrderTotals(os).totalWeight = 0 => list = <<>>
    /\ \A s \in 1..Len(list) :
         /\ CombinedCapacity(list[s], vehicleTypes).weight
              >= calculateOrderTotals(os).totalWeight
         /\ CombinedCapacity(list[s], vehicleTypes).volume
              >= calculateOrderTotals(os).totalVolume

C19_SuggestionsFeasible ==
  Distributed =>
    /\ FeasibleSuggestions(<<>>, distInput.vehicleTypes)
    /\ FeasibleSuggestions(distInput.orders, distInput.vehicleTypes)
    /\ \A g \in 1..Len(groupOrdersByRoute(distInput.orders)) :
         FeasibleSuggestions(groupOrdersByRoute(distInput.orders)[g].orders,
                             distInput.vehicleTypes)

(* the separate strategy has returned for orders of one route that get a   *)
(* suggestion of several vehicles of one type and a mixed suggestion       *)
C19_Witness ==
  /\ Distributed
  /\ distInput.routeStrategy = "separate"
  /\ OneRoute(distInput.orders)
  /\ \E list \in generateVehicleSuggestions(distInput.orders, distInput.vehicleTypes) :
       /\ \E s \in 1..Len(list) :
            list[s].strategy = "mixed" /\ Len(list[s].vehicles) = 2
       /\ \E s \in 1..Len(list) :
            list[s].strategy # "mixed" /\ list[s].vehicles[1].quantity >= 2

(* C28: order conservation in distribution.  Every order handed to         *)
(* distributeOrdersAcrossVehicles appears in the orders list of exactly    *)
(* one container instance of the list it returns, and once.                *)
Holders(order) ==
  {i \in 1..Len(result) :
     \E j \in 1..Len(result[i].orders) : result[i].orders[j].id = order.id}

C29_UniqueInstances ==
  Distributed =>
    /\ \A i, j \in 1..Len(result) : result[i].id = result[j].id => i = j
    /\ \A i \in 1..Len(result) : Len(result[i].orders) >= 1

(***************************************************************************)
(* ConstraintsEngine (src/utils/constraintsEngine.js).  The engine takes   *)
(* positions and dimensions in millimetres; the model keeps them as whole  *)
(* millimetres, so position.y > 0.1 reads position.y >= 1.  Distances are  *)
(* compared through their squares, areas are kept in square millimetres    *)
(* (the code's square metres times 10^6).                                  *)
(***************************************************************************)
materialRules ==
  [cuboidal |-> [heavyBelowLight |-> TRUE, fullCoverageBase |-> TRUE,
                 preventTipping |-> TRUE, maxOverhang |-> [num |-> 1, den |-> 10],
                 maxStackHeight |-> 2500,
                 stackingWeightRatio |-> [num |-> 3, den |-> 2]],
   cylindrical |-> [interlocking |-> TRUE, preventRolling |-> TRUE,
                    useWedges |-> TRUE, avoidHorizontalStacking |-> TRUE,
                    nestingAllowed |-> TRUE, maxNestingDepth |-> 3],
   mixed |-> [separateTypes |-> FALSE, bufferZone |-> 50]]

(* the result objects of the checks: { valid: true } and a violation       *)
CheckPassed == [valid |-> TRUE]

Violation(type, severity, message) ==
  [valid |-> FALSE, type |-> type, severity |-> severity, message |-> message]

AboveGround(position) == position.y >= 1

ConstraintsEngine_getItemDimensions(item) ==
  IF item.materialType = "cuboidal"
  THEN [length |-> item.dimensions.length, width |-> item.dimensions.width,
        height |-> item.dimensions.height]
  ELSE IF item.materialType = "cylindrical"
  THEN IF item.orientation = "horizontal"
       THEN [length |-> item.dimensions.height,
             width |-> item.dimensions.diameter,
             height |-> item.dimensions.diameter]
       ELSE [length |-> item.dimensions.diameter,
             width |-> item.dimensions.diameter,
             height |-> item.dimensions.height]
  ELSE [length |-> 0, width |-> 0, height |-> 0]

checkBoundaryConstraints(veh, item, position) ==
  LET itemDims == ConstraintsEngine_getItemDimensions(item)
      exceedsLength == position.x + itemDims.length > veh.dimensions.length
      exceedsWidth == position.z + itemDims.width > veh.dimensions.width
      exceedsHeight == position.y + itemDims.height > veh.dimensions.height
      belowGround == position.y < 0
  IN  IF exceedsLength \/ exceedsWidth \/ exceedsHeight \/ belowGround
      THEN Violation("boundary_violation", "high",
                     <<exceedsLength, exceedsWidth, exceedsHeight>>)
      ELSE CheckPassed

(* the centre of gravity of the items that have a position, as exact       *)
(* quotients weighted / totalWeight                                        *)
ConstraintsEngine_calculateCenterOfGravity(items) ==
  LET placed == SelectSeq(items, LAMBDA it : "position" \in DOMAIN it)
      w == [i \in 1..Len(placed) |-> placed[i].weight * placed[i].quantity]
      totalWeight == SumSeq(w)
      weightedX == SumSeq([i \in 1..Len(placed) |-> placed[i].position.x * w[i]])
      weightedZ == SumSeq([i \in 1..Len(placed) |-> placed[i].position.z * w[i]])
  IN  IF totalWeight > 0
      THEN [x |-> Rat(weightedX, totalWeight), z |-> Rat(weightedZ, totalWeight)]
      ELSE [x |-> Rat(0, 1), z |-> Rat(0, 1)]

(* |cog - size / 2| > size * 0.1, both sides multiplied by 10 * cog.den    *)
OffsetExceeds(cog, size) ==
  Abs(10 * cog.num - 5 * size * cog.den) > size * cog.den

checkCenterOfGravity(veh, newItem, position, existingItems) ==
  LET allItems == Append(existingItems, [position |-> position] @@ newItem)
      cog == ConstraintsEngine_calculateCenterOfGravity(allItems)
  IN  IF \/ OffsetExceeds(cog.x, veh.dimensions.length)
         \/ OffsetExceeds(cog.z, veh.dimensions.width)
      THEN Violation("center_of_gravity_violation", "high", <<>>)
      ELSE CheckPassed

checkWeightConstraints(veh, item, position, existingItems) ==
  LET itemWeight == item.weight * item.quantity
      totalWeight ==
        SumSeq([i \in 1..Len(existingItems) |->
                  existingItems[i].weight * existingItems[i].quantity])
        + itemWeight
  IN  IF totalWeight > veh.maxWeight
      THEN Violation("weight_limit_exceeded", "high",
                     <<totalWeight, veh.maxWeight>>)
      ELSE checkCenterOfGravity(veh, item, position, existingItems)

checkHorizontalOverlap(pos1, pos2, item2) ==
  LET dims2 == ConstraintsEngine_getItemDimensions(item2)
  IN  ~(\/ pos1.x > pos2.x + dims2.length
        \/ pos1.x + 100 < pos2.x
        \/ pos1.z > pos2.z + dims2.width
        \/ pos1.z + 100 < pos2.z)

getItemsBelow(position, existingItems) ==
  SelectSeq(existingItems,
            LAMBDA it : /\ "position" \in DOMAIN it
                        /\ it.position.y < position.y
                        /\ checkHorizontalOverlap(position, it.position, it))

calculateSupportArea(item, position, existingItems) ==
  IF Len(getItemsBelow(position, existingItems)) > 0
  THEN item.dimensions.length * item.dimensions.width
  ELSE 0

hasAdequateSupport(item, position, existingItems) ==
  Len(getItemsBelow(position, existingItems)) >= 2

(* supportArea / itemArea, a quotient that is NaN for 0 / 0                *)
SupportRatio(item, position, existingItems) ==
  LET supportArea == calculateSupportArea(item, position, existingItems)
      itemArea == item.dimensions.length * item.dimensions.width
  IN  IF itemArea = 0 THEN [nan |-> TRUE, num |-> 0, den |-> 1]
      ELSE [nan |-> FALSE] @@ Rat(supportArea, itemArea)

(* the first item below that the new item is too heavy for, 0 if none      *)
HeavierThanBelow(itemWeight, itemsBelow) ==
  LET ratio == materialRules.cuboidal.stackingWeightRatio
      hits == {i \in 1..Len(itemsBelow) :
                 itemWeight * ratio.den >
                 itemsBelow[i].weight * itemsBelow[i].quantity * ratio.num}
  IN  IF hits = {} THEN 0 ELSE CHOOSE i \in hits : \A j \in hits : i <= j

checkCuboidalStacking(item, position, existingItems) ==
  LET rules == materialRules.cuboidal
      itemWeight == item.weight * item.quantity
      itemsBelow == getItemsBelow(position, existingItems)
      heavy == HeavierThanBelow(itemWeight, itemsBelow)
      supportRatio == SupportRatio(item, position, existingItems)
  IN  IF ~item.stackable /\ AboveGround(position)
      THEN Violation("non_stackable_violation", "high", <<item.id>>)
      ELSE IF rules.heavyBelowLight /\ heavy # 0
      THEN Violation("heavy_above_light", "medium",
                     <<itemWeight,
                       itemsBelow[heavy].weight * itemsBelow[heavy].quantity>>)
      ELSE IF /\ rules.fullCoverageBase
              /\ AboveGround(position)
              /\ ~supportRatio.nan
              /\ 10 * supportRatio.num < 8 * supportRatio.den
      THEN Violation("insufficient_support", "high", <<supportRatio.num>>)
      ELSE IF position.y + item.dimensions.height > rules.maxStackHeight
      THEN Violation("stack_height_exceeded", "medium",
                     <<position.y + item.dimensions.height,
                       rules.maxStackHeight>>)
      ELSE CheckPassed

(* distance < containerDims.diameter / 2000, squared and cleared of the    *)
(* denominator                                                             *)
isPositionInside(position, containerPos, containerDims) ==
  LET dx == position.x - containerPos.x
      dz == position.z - containerPos.z
      distanceSq == dx * dx + dz * dz
      diameterSq == containerDims.diameter * containerDims.diameter
  IN  /\ distanceSq <= diameterSq \div 4000000
      /\ 4000000 * distanceSq < diameterSq
      /\ position.y >= containerPos.y

(* existingItems.find(...) of calculateNestingDepth: the index of the      *)
(* first nesting cylinder that holds currentPos, 0 when there is none      *)
findContainerItem(currentPos, existingItems) ==
  LET hits == {i \in 1..Len(existingItems) :
                 /\ existingItems[i].materialType = "cylindrical"
                 /\ existingItems[i].nesting
                 /\ isPositionInside(currentPos, existingItems[i].position,
                                     existingItems[i].dimensions)}
  IN  IF hits = {} THEN 0 ELSE CHOOSE i \in hits : \A j \in hits : i <= j

(* the part of checkCylindricalStacking before the nesting-depth rule      *)
checkRollingAndFragile(item, position, existingItems) ==
  LET rules == materialRules.cylindrical
  IN  IF /\ item.orientation = "horizontal"
         /\ rules.preventRolling
         /\ AboveGround(position)
         /\ ~hasAdequateSupport(item, position, existingItems)
      THEN Violation("rolling_risk", "high", <<>>)
      ELSE IF /\ item.fragile
              /\ item.orientation = "horizontal"
              /\ rules.avoidHorizontalStacking
      THEN Violation("fragile_horizontal", "high", <<>>)
      ELSE CheckPassed

(* checkStackingConstraints reaches the call of calculateNestingDepth      *)
reachesNestingDepth(item, position, existingItems) ==
  /\ item.materialType = "cylindrical"
  /\ checkRollingAndFragile(item, position, existingItems).valid
  /\ item.nesting
  /\ materialRules.cylindrical.nestingAllowed

(* nestingDepth is what calculateNestingDepth returned; it is read only    *)
(* when reachesNestingDepth holds                                          *)
checkCylindricalStacking(item, position, existingItems, nestingDepth) ==
  LET rules == materialRules.cylindrical
      early == checkRollingAndFragile(item, position, existingItems)
  IN  IF ~early.valid THEN early
      ELSE IF /\ item.nesting
              /\ rules.nestingAllowed
              /\ nestingDepth > rules.maxNestingDepth
      THEN Violation("nesting_depth_exceeded", "medium",
                     <<nestingDepth, rules.maxNestingDepth>>)
      ELSE CheckPassed

checkStackingConstraints(item, position, existingItems, nestingDepth) ==
  IF item.materialType = "cuboidal"
  THEN checkCuboidalStacking(item, position, existingItems)
  ELSE IF item.materialType = "cylindrical"
  THEN checkCylindricalStacking(item, position, existingItems, nestingDepth)
  ELSE CheckPassed

(* the square of calculateDistance(pos1, pos2)                             *)
calculateDistanceSq(pos1, pos2) ==
  (pos1.x - pos2.x) * (pos1.x - pos2.x)
  + (pos1.y - pos2.y) * (pos1.y - pos2.y)
  + (pos1.z - pos2.z) * (pos1.z - pos2.z)

getNearbyItems(position, radius, existingItems) ==
  SelectSeq(existingItems,
            LAMBDA it : /\ "position" \in DOMAIN it
                        /\ calculateDistanceSq(position, it.position)
                             <= radius * radius)

checkMaterialConstraints(item, position, existingItems) ==
  LET rules == materialRules.mixed
      nearbyItems == getNearbyItems(position, rules.bufferZone, existingItems)
      differentTypeItems ==
        SelectSeq(nearbyItems, LAMBDA nearby : nearby.materialType # item.materialType)
  IN  IF /\ ~rules.separateTypes
         /\ rules.bufferZone > 0
         /\ Len(differentTypeItems) > 0
      THEN Violation("buffer_zone_violation", "low", <<rules.bufferZone>>)
      ELSE CheckPassed

minDistance == 1000

checkSafetyConstraints(item, position, existingItems) ==
  LET hazardousItems == SelectSeq(existingItems, LAMBDA existing : existing.hazardous)
      tooClose ==
        \E i \in 1..Len(hazardousItems) :
          calculateDistanceSq(position, hazardousItems[i].position)
            < minDistance * minDistance
      incompatibleItems ==
        SelectSeq(existingItems,
                  LAMBDA existing :
                    /\ existing.temperatureControlled
                    /\ Abs(existing.requiredTemperature - item.requiredTemperature) > 5)
  IN  IF item.hazardous /\ Len(hazardousItems) > 0 /\ tooClose
      THEN Violation("hazardous_separation", "critical", <<minDistance>>)
      ELSE IF item.temperatureControlled /\ Len(incompatibleItems) > 0
      THEN Violation("temperature_incompatibility", "high", <<>>)
      ELSE CheckPassed

(* four times the square of calculateDistanceFromCenter(position)          *)
calculateDistanceFromCenterSq4(veh, position) ==
  (2 * position.x - veh.dimensions.length) * (2 * position.x - veh.dimensions.length)
  + (2 * position.z - veh.dimensions.width) * (2 * position.z - veh.dimensions.width)

(* The local score of calculatePlacementScore when it calls                *)
(* validatePlacement (l.348).  The value is                                *)
(*   milli / 1000 - sqrt(centerSq4) / 20,                                  *)
(* NaN when the support ratio is; the square root is kept symbolic.        *)
scoreBeforePenalty(veh, item, position, existingItems) ==
  LET supportRatio == SupportRatio(item, position, existingItems)
      cuboidal == item.materialType = "cuboidal"
      bonus == IF cuboidal /\ ~supportRatio.nan
               THEN (20000 * supportRatio.num) \div supportRatio.den
               ELSE 0
  IN  [nan |-> cuboidal /\ supportRatio.nan,
       milli |-> 100000 - 10 * position.y + bonus,
       centerSq4 |-> calculateDistanceFromCenterSq4(veh, position)]

(* violations.push(check) when the check failed                            *)
pushViolation(violations, check) ==
  IF check.valid THEN violations ELSE Append(violations, check)

(* validatePlacement l.36-48: the boundary and the weight check            *)
violationsBeforeStacking(veh, item, position, existingItems) ==
  pushViolation(
    pushViolation(<<>>, checkBoundaryConstraints(veh, item, position)),
    checkWeightConstraints(veh, item, position, existingItems))

(* validatePlacement l.51-66: the stacking, material and safety checks     *)
violationsFromStacking(violations, item, position, existingItems, nestingDepth) ==
  pushViolation(
    pushViolation(
      pushViolation(violations,
                    checkStackingConstraints(item, position, existingItems,
                                             nestingDepth)),
      checkMaterialConstraints(item, position, existingItems)),
    checkSafetyConstraints(item, position, existingItems))

(***************************************************************************)
(* Inputs of validatePlacement.                                            *)
(***************************************************************************)
MaxExisting == 2   \* longest existingItems handed to validatePlacement
MaxStack == 5      \* frames the call stack of the JavaScript engine holds
MaxIterations == 3 \* iterations of one loop the model follows

SafetyAttributes ==
  {[hazardous |-> FALSE, temperatureControlled |-> FALSE, requiredTemperature |-> 0],
   [hazardous |-> TRUE, temperatureControlled |-> FALSE, requiredTemperature |-> 0],
   [hazardous |-> FALSE, temperatureControlled |-> TRUE, requiredTemperature |-> 4]}

EngineItems ==
  {[id |-> "SO001"] @@ safety @@ kind : kind \in ItemKinds, safety \in SafetyAttributes}

EnginePositions ==
  {[x |-> 0, y |-> 0, z |-> 0],
   [x |-> 3000, y |-> 0, z |-> 1200],
   [x |-> 3000, y |-> 600, z |-> 1200],
   [x |-> 2000, y |-> 800, z |-> 600],
   [x |-> 4000, y |-> 0, z |-> 1200],
   [x |-> 5500, y |-> 0, z |-> 2000],
   [x |-> -500, y |-> 0, z |-> 1200],
   [x |-> 3500, y |-> 600, z |-> 1600]}

(* placements the caller may already hold: a box in the middle, a nesting  *)
(* drum, a hazardous box and a chilled drum                                *)
ExistingCatalog ==
  <<[id |-> "SO002", materialType |-> "cuboidal",
     dimensions |-> [length |-> 1000, width |-> 800, height |-> 600],
     weight |-> 50, quantity |-> 10, stackable |-> TRUE, fragile |-> FALSE,
     orientation |-> Undefined, nesting |-> FALSE,
     route |-> "DEL-MUM", delivery |-> "Mumbai",
     hazardous |-> FALSE, temperatureControlled |-> FALSE,
     requiredTemperature |-> 0,
     position |-> [x |-> 3000, y |-> 0, z |-> 1200]],
    [id |-> "SO003", materialType |-> "cylindrical",
     dimensions |-> [diameter |-> 700, height |-> 800],
     weight |-> 4, quantity |-> 2, stackable |-> TRUE, fragile |-> FALSE,
     orientation |-> "vertical", nesting |-> TRUE,
     route |-> "DEL-MUM", delivery |-> "Mumbai",
     hazardous |-> FALSE, temperatureControlled |-> FALSE,
     requiredTemperature |-> 0,
     position |-> [x |-> 2000, y |-> 0, z |-> 600]],
    [id |-> "SO004", materialType |-> "cuboidal",
     dimensions |-> [length |-> 600, width |-> 400, height |-> 300],
     weight |-> 25, quantity |-> 2, stackable |-> FALSE, fragile |-> FALSE,
     orientation |-> Undefined, nesting |-> FALSE,
     route |-> "DEL-HYD", delivery |-> "Hyderabad",
     hazardous |-> TRUE, temperatureControlled |-> FALSE,
     requiredTemperature |-> 0,
     position |-> [x |-> 4500, y |-> 0, z |-> 1200]],
    [id |-> "SO005", materialType |-> "cylindrical",
     dimensions |-> [diameter |-> 500, height |-> 800],
     weight |-> 5, quantity |-> 1, stackable |-> TRUE, fragile |-> FALSE,
     orientation |-> "vertical", nesting |-> FALSE,
     route |-> "DEL-CHE", delivery |-> "Chennai",
     hazardous |-> FALSE, temperatureControlled |-> TRUE,
     requiredTemperature |-> 20,
     position |-> [x |-> 5000, y |-> 0, z |-> 400]]>>

RECURSIVE PickExisting(_, _)
PickExisting(S, i) ==
  IF i > Len(ExistingCatalog) THEN <<>>
  ELSE (IF i \in S THEN <<ExistingCatalog[i]>> ELSE <<>>) \o PickExisting(S, i + 1)

ExistingLists ==
  {PickExisting(S, 1) : S \in {T \in SUBSET (1..Len(ExistingCatalog)) :
                                 Cardinality(T) <= MaxExisting}}

(***************************************************************************)
(* validatePlacement, called twice with the same arguments, step by step.  *)
(* engine.stack is the call stack: a frame of validatePlacement holds its  *)
(* violations and where it stands, a frame of calculateNestingDepth its    *)
(* loop variables, a frame of calculatePlacementScore its local score.     *)
(* engine.given keeps the existingItems the caller passed; engine.outcomes *)
(* holds how each finished call ended.                                     *)
(***************************************************************************)
InitValidate ==
  /\ mode = "validate"
  /\ vehicle = None
  /\ loadingSequence = Undefined
  /\ orders = <<>>
  /\ pc = "idle"
  /\ binPacker = IdleBinPacker
  /\ cylPacker = IdleCylPacker
  /\ loadPlan = None
  /\ now = 0
  /\ run = 1
  /\ firstPlan = None
  /\ distInput = None
  /\ heap = <<>>
  /\ allVehicleInstances = <<>>
  /\ work = None
  /\ dpc = "idle"
  /\ result = <<>>
  /\ \E veh \in LoadVehicles, item \in EngineItems, position \in EnginePositions,
        existingItems \in ExistingLists :
       engine = [vehicle |-> veh, item |-> item, position |-> position,
                 existingItems |-> existingItems, given |-> existingItems,
                 stack |-> <<>>, call |-> 1, outcomes |-> <<>>, epc |-> "idle"]

Top == engine.stack[Len(engine.stack)]

Push(frame) == Append(engine.stack, frame)

ReplaceTop(frame) == [engine.stack EXCEPT ![Len(engine.stack)] = frame]

(* the statement the top frame stands at is a call                         *)
AboutToCall ==
  \/ engine.stack = <<>> /\ engine.epc = "idle"
  \/ /\ engine.stack # <<>>
     /\ \/ Top.fn = "calculatePlacementScore"
        \/ Top.fn = "validatePlacement" /\ Top.at = "score"
        \/ /\ Top.fn = "validatePlacement"
           /\ Top.at = "stacking"
           /\ reachesNestingDepth(engine.item, engine.position, engine.existingItems)

(* validatePlacement is entered, by the caller or from l.348 of            *)
(* calculatePlacementScore, and runs its boundary and weight checks        *)
ValidatePlacementEnter ==
  /\ mode = "validate"
  /\ \/ engine.epc = "idle" /\ engine.stack = <<>>
     \/ engine.epc = "running" /\ Top.fn = "calculatePlacementScore"
  /\ Len(engine.stack) < MaxStack
  /\ engine' =
       [engine EXCEPT
          !.epc = "running",
          !.stack = Push([fn |-> "validatePlacement", at |-> "stacking",
                          violations |->
                            violationsBeforeStacking(engine.vehicle, engine.item,
                                                     engine.position,
                                                     engine.existingItems)])]
  /\ UNCHANGED <<loadVars, distVars, mode>>

(* the stacking check needs no nesting depth: the stacking, material and   *)
(* safety checks run, and validatePlacement stands at l.71                 *)
CheckStackingToSafety ==
  /\ mode = "validate"
  /\ engine.epc = "running"
  /\ Top.fn = "validatePlacement"
  /\ Top.at = "stacking"
  /\ ~reachesNestingDepth(engine.item, engine.position, engine.existingItems)
  /\ engine' =
       [engine EXCEPT
          !.stack = ReplaceTop(
            [Top EXCEPT !.at = "score",
                        !.violations =
                          violationsFromStacking(@, engine.item, engine.position,
                                                 engine.existingItems, 0)])]
  /\ UNCHANGED <<loadVars, distVars, mode>>

(* checkCylindricalStacking calls calculateNestingDepth (l.220)            *)
CalculateNestingDepthEnter ==
  /\ mode = "validate"
  /\ engine.epc = "running"
  /\ Top.fn = "validatePlacement"
  /\ Top.at = "stacking"
  /\ reachesNestingDepth(engine.item, engine.position, engine.existingItems)
  /\ Len(engine.stack) < MaxStack
  /\ engine' =
       [engine EXCEPT
          !.stack = Push([fn |-> "calculateNestingDepth", depth |-> 0,
                          currentPos |-> engine.position])]
  /\ UNCHANGED <<loadVars, distVars, mode>>

(* one iteration of the while loop that finds a container item (l.415-425) *)
NestingDepthIterate ==
  /\ mode = "validate"
  /\ engine.epc = "running"
  /\ Top.fn = "calculateNestingDepth"
  /\ Top.depth < MaxIterations
  /\ LET found == findContainerItem(Top.currentPos, engine.existingItems)
     IN  /\ found # 0
         /\ engine' =
              [engine EXCEPT
                 !.stack = ReplaceTop(
                   [Top EXCEPT !.depth = @ + 1,
                               !.currentPos = engine.existingItems[found].position])]
  /\ UNCHANGED <<loadVars, distVars, mode>>

(* the loop finds no container item: calculateNestingDepth returns, the    *)
(* stacking, material and safety checks finish                             *)
NestingDepthBreak ==
  /\ mode = "validate"
  /\ engine.epc = "running"
  /\ Top.fn = "calculateNestingDepth"
  /\ findContainerItem(Top.currentPos, engine.existingItems) = 0
  /\ LET caller == engine.stack[Len(engine.stack) - 1]
         below == SubSeq(engine.stack, 1, Len(engine.stack) - 2)
     IN  engine' =
           [engine EXCEPT
              !.stack = Append(below,
                [caller EXCEPT !.at = "score",
                               !.violations =
                                 violationsFromStacking(@, engine.item,
                                                        engine.position,
                                                        engine.existingItems,
                                                        Top.depth)])]
  /\ UNCHANGED <<loadVars, distVars, mode>>

(* validatePlacement calls calculatePlacementScore (l.71), which computes  *)
(* its local score and stands at the call of validatePlacement (l.348)     *)
CalculatePlacementScoreEnter ==
  /\ mode = "validate"
  /\ engine.epc = "running"
  /\ Top.fn = "validatePlacement"
  /\ Top.at = "score"
  /\ Len(engine.stack) < MaxStack
  /\ engine' =
       [engine EXCEPT
          !.stack = Push([fn |-> "calculatePlacementScore",
                          score |-> scoreBeforePenalty(engine.vehicle, engine.item,
                                                       engine.position,
                                                       engine.existingItems)])]
  /\ UNCHANGED <<loadVars, distVars, mode>>

(* a call with the stack full: the engine throws RangeError, no frame      *)
(* catches it, and the caller's call of validatePlacement ends by throwing *)
StackOverflow ==
  /\ mode = "validate"
  /\ engine.epc = "running"
  /\ AboutToCall
  /\ Len(engine.stack) >= MaxStack
  /\ engine' =
       [engine EXCEPT
          !.stack = <<>>,
          !.epc = "ended",
          !.outcomes = Append(@, [returned |-> FALSE, threw |-> "RangeError"])]
  /\ UNCHANGED <<loadVars, distVars, mode>>

(* the caller calls validatePlacement a second time, same arguments        *)
ValidateAgain ==
  /\ mode = "validate"
  /\ engine.epc = "ended"
  /\ engine.call = 1
  /\ engine' = [engine EXCEPT !.call = 2, !.epc = "idle"]
  /\ UNCHANGED <<loadVars, distVars, mode>>

NextValidate ==
  \/ ValidatePlacementEnter
  \/ CheckStackingToSafety
  \/ CalculateNestingDepthEnter
  \/ NestingDepthIterate
  \/ NestingDepthBreak
  \/ CalculatePlacementScoreEnter
  \/ StackOverflow
  \/ ValidateAgain

SpecValidate == InitValidate /\ [][NextValidate]_vars

(***************************************************************************)
(* Claims about validatePlacement.                                         *)
(***************************************************************************)
SecondCallOver ==
  /\ mode = "validate"
  /\ engine.call = 2
  /\ engine.epc = "ended"

(* C7: two successive calls of validatePlacement with the same arguments   *)
(* both return, with the same valid flag, the same violations and the same *)
(* score, and existingItems is left as the caller passed it.               *)
C7_Idempotent ==
  SecondCallOver =>
    /\ Len(engine.outcomes) = 2
    /\ engine.outcomes[1].returned
    /\ engine.outcomes[2].returned
    /\ engine.outcomes[1] = engine.outcomes[2]
    /\ engine.existingItems = engine.given

(* C20: validation terminates.  Every call of validatePlacement that has   *)
(* ended has returned a result, whose valid flag is true exactly when its  *)
(* list of violations is empty; no call ends by throwing.                  *)
C20_ReturnsResult ==
  mode = "validate" =>
    \A k \in 1..Len(engine.outcomes) :
      /\ engine.outcomes[k].returned
      /\ engine.outcomes[k].valid <=> (engine.outcomes[k].violations = <<>>)

(***************************************************************************)
(* BinPacker driven by a caller.  packItems places an item with            *)
(* placeItem(item, position) and updateFreeSpaces(packedItem) (l.22-24),   *)
(* the position being the minimum corner of a free space; from a new       *)
(* packer its own findBestPosition never yields one (the centre of gravity *)
(* of a first item at x = 0 is outside the tolerance).  Here a caller of   *)
(* the exported class makes these two calls itself, for a cuboidal item    *)
(* and the minimum corner of a free space the item fits in by its          *)
(* dimensions, and calls packItems with one item.  `discarded` is a        *)
(* record of the spaces mergeSpaces has dropped.                           *)
(***************************************************************************)
MaxPlaced == 4     \* most items a packer of the harness holds

(* a 2.2 x 1.5 x 1.4 m body, and a box ten millimetres longer than the     *)
(* large item                                                              *)
PackContainers ==
  {[length |-> 2200, width |-> 1500, height |-> 1400],
   [length |-> 1010, width |-> 800, height |-> 1200]}

PackKinds == {kind \in ItemKinds : kind.materialType = "cuboidal"}

InitPack ==
  /\ mode = "pack"
  /\ vehicle = None
  /\ loadingSequence = Undefined
  /\ orders = <<>>
  /\ pc = "idle"
  /\ \E container \in PackContainers :
       binPacker = [packer |-> NewBinPacker(container), sortedItems |-> <<>>,
                    packedItems |-> <<>>, discarded |-> <<>>]
  /\ cylPacker = IdleCylPacker
  /\ loadPlan = None
  /\ now = 0
  /\ run = 1
  /\ firstPlan = None
  /\ distInput = None
  /\ heap = <<>>
  /\ allVehicleInstances = <<>>
  /\ work = None
  /\ dpc = "idle"
  /\ result = <<>>
  /\ engine = None

(* the spaces the filter of mergeSpaces drops when packedItem is placed    *)
discardedBy(packer, packedItem) ==
  LET itemDims == getItemDimensions(packedItem)
      itemPos == [x |-> packedItem.position.x \div 1000,
                  y |-> packedItem.position.y \div 1000,
                  z |-> packedItem.position.z \div 1000]
  IN  SelectSeq(SplitAll(packer.freeSpaces, itemPos, itemDims),
                LAMBDA space : ~(space.length > 10 /\ space.width > 10
                                   /\ space.height > 10))

NextItem(kind) ==
  [id |-> OrderIds[(Len(binPacker.packer.placedItems) % Len(OrderIds)) + 1]] @@ kind

(* placeItem(item, position); updateFreeSpaces(packedItem)                 *)
PlaceItem ==
  /\ mode = "pack"
  /\ Len(binPacker.packer.placedItems) < MaxPlaced
  /\ \E kind \in PackKinds, s \in 1..Len(binPacker.packer.freeSpaces) :
       LET item == NextItem(kind)
           space == binPacker.packer.freeSpaces[s]
           itemDims == getItemDimensions(item)
           packedItem ==
             BinPacker_packedItem(item, calculateOptimalPosition(item, space), now)
           placed == [binPacker.packer EXCEPT !.placedItems = Append(@, packedItem)]
       IN  /\ itemDims.length <= space.length
           /\ itemDims.width <= space.width
           /\ itemDims.height <= space.height
           /\ binPacker' =
                [binPacker EXCEPT
                   !.packer = updateFreeSpaces(placed, packedItem),
                   !.discarded = @ \o discardedBy(placed, packedItem)]
  /\ UNCHANGED <<distVars, engine, mode, vehicle, loadingSequence, orders, pc, cylPacker,
                 loadPlan, now, run, firstPlan>>

(* packItems([item]); packedItems is the list the call returns             *)
PackItems ==
  /\ mode = "pack"
  /\ Len(binPacker.packer.placedItems) < MaxPlaced
  /\ \E kind \in PackKinds :
       LET r == BinPacker_packOne(binPacker.packer, <<>>, NextItem(kind), now)
       IN  binPacker' =
             [binPacker EXCEPT
                !.packer = r.packer,
                !.packedItems = r.packedItems,
                !.discarded =
                  @ \o (IF r.packedItems = <<>> THEN <<>>
                        ELSE discardedBy(
                               [binPacker.packer EXCEPT
                                  !.placedItems = Append(@, r.packedItems[1])],
                               r.packedItems[1]))]
  /\ UNCHANGED <<distVars, engine, mode, vehicle, loadingSequence, orders, pc, cylPacker,
                 loadPlan, now, run, firstPlan>>

NextPack ==
  \/ PlaceItem
  \/ PackItems

SpecPack == InitPack /\ [][NextPack]_vars

(***************************************************************************)
(* Claims about the free spaces of BinPacker.                              *)
(***************************************************************************)
(* C21: Bottom-Left-Fill.  After any placements, the position              *)
(* findBestPosition returns for a unit is the minimum corner of a free     *)
(* space that admits the unit and has the lowest y of all free spaces that *)
(* admit it, then the lowest x, then the lowest z.                         *)
Admitting(packer, item) ==
  {i \in 1..Len(packer.freeSpaces) : canFitInSpace(packer, item, packer.freeSpaces[i])}

BottomLeftFirst(s, t) ==
  \/ s.y < t.y
  \/ s.y = t.y /\ s.x < t.x
  \/ s.y = t.y /\ s.x = t.x /\ s.z <= t.z

C21_BottomLeftFill ==
  mode = "pack" =>
    \A kind \in PackKinds :
      LET packer == binPacker.packer
          item == NextItem(kind)
      IN  Admitting(packer, item) # {} =>
            \E i \in Admitting(packer, item) :
              /\ findBestPosition(packer, item)
                   = calculateOptimalPosition(item, packer.freeSpaces[i])
              /\ \A j \in Admitting(packer, item) :
                   BottomLeftFirst(packer.freeSpaces[i], packer.freeSpaces[j])

(* C22: free-space set invariant.  After every placeItem and               *)
(* updateFreeSpaces step the free spaces are pairwise non-overlapping,     *)
(* none of them intersects a placed item, each lies inside the container,  *)
(* and free spaces, placed items and the spaces dropped for a dimension of *)
(* at most 10 mm together cover the container.  Boxes are half-open; the   *)
(* cover is tested at the corner of every cell of the grid that the faces  *)
(* of all boxes cut the container into.                                    *)
SpaceBox(s) ==
  [x1 |-> s.x, x2 |-> s.x + s.length, y1 |-> s.y, y2 |-> s.y + s.height,
   z1 |-> s.z, z2 |-> s.z + s.width]

PlacedBox(item) ==
  SpaceBox([x |-> item.position.x \div 1000, y |-> item.position.y \div 1000,
            z |-> item.position.z \div 1000] @@ getItemDimensions(item))

BoxesMeet(a, b) ==
  /\ a.x1 < b.x2 /\ b.x1 < a.x2
  /\ a.y1 < b.y2 /\ b.y1 < a.y2
  /\ a.z1 < b.z2 /\ b.z1 < a.z2

BoxHolds(b, x, y, z) ==
  /\ b.x1 <= x /\ x < b.x2
  /\ b.y1 <= y /\ y < b.y2
  /\ b.z1 <= z /\ z < b.z2

FreeBoxes == {SpaceBox(binPacker.packer.freeSpaces[i]) :
                i \in 1..Len(binPacker.packer.freeSpaces)}

PlacedBoxes == {PlacedBox(binPacker.packer.placedItems[i]) :
                  i \in 1..Len(binPacker.packer.placedItems)}

DiscardedBoxes == {SpaceBox(binPacker.discarded[i]) : i \in 1..Len(binPacker.discarded)}

C22_FreeSpaceInvariant ==
  mode = "pack" =>
    LET container == binPacker.packer.container
        free == binPacker.packer.freeSpaces
        all == FreeBoxes \cup PlacedBoxes \cup DiscardedBoxes
        xs == {x \in {0} \cup {b.x1 : b \in all} \cup {b.x2 : b \in all} :
                 0 <= x /\ x < container.length}
        ys == {y \in {0} \cup {b.y1 : b \in all} \cup {b.y2 : b \in all} :
                 0 <= y /\ y < container.height}
        zs == {z \in {0} \cup {b.z1 : b \in all} \cup {b.z2 : b \in all} :
                 0 <= z /\ z < container.width}
    IN  /\ \A i, j \in 1..Len(free) :
             i # j => ~BoxesMeet(SpaceBox(free[i]), SpaceBox(free[j]))
        /\ \A f \in FreeBoxes, p \in PlacedBoxes : ~BoxesMeet(f, p)
        /\ \A f \in FreeBoxes :
             /\ 0 <= f.x1 /\ f.x2 <= container.length
             /\ 0 <= f.y1 /\ f.y2 <= container.height
             /\ 0 <= f.z1 /\ f.z2 <= container.width
        /\ \A i \in 1..Len(binPacker.discarded) :
             \/ binPacker.discarded[i].length <= 10
             \/ binPacker.discarded[i].width <= 10
             \/ binPacker.discarded[i].height <= 10
        /\ \A x \in xs, y \in ys, z \in zs : \E b \in all : BoxHolds(b, x, y, z)

(* a packer with an item on top of another, several free spaces, and a     *)
(* space dropped as too thin                                               *)
C22_Witness ==
  /\ mode = "pack"
  /\ \E i \in 1..Len(binPacker.packer.placedItems) :
       binPacker.packer.placedItems[i].position.y > 0
  /\ Len(binPacker.packer.freeSpaces) >= 2
  /\ binPacker.discarded # <<>>

(* C23: the boundary check is exact.  A frame of validatePlacement holds a *)
(* 'boundary_violation' exactly when the bounding volume of the item at    *)
(* the position is not fully inside the container: 0 <= x and x + length   *)
(* <= container length, 0 <= y and y + height <= container height, 0 <= z  *)
(* and z + width <= container width.                                       *)
FullyInside(veh, item, position) ==
  LET itemDims == ConstraintsEngine_getItemDimensions(item)
  IN  /\ 0 <= position.x /\ position.x + itemDims.length <= veh.dimensions.length
      /\ 0 <= position.y /\ position.y + itemDims.height <= veh.dimensions.height
      /\ 0 <= position.z /\ position.z + itemDims.width <= veh.dimensions.width

C23_BoundaryExact ==
  mode = "validate" =>
    \A f \in 1..Len(engine.stack) :
      engine.stack[f].fn = "validatePlacement" =>
        ((\E v \in 1..Len(engine.stack[f].violations) :
            engine.stack[f].violations[v].type = "boundary_violation")
          <=> ~FullyInside(engine.vehicle, engine.item, engine.position))

(* C24: the buffer between material kinds.  Once validatePlacement has run *)
(* its material check, its violations hold a 'buffer_zone_violation'       *)
(* exactly when the policy of separating material types is enabled and     *)
(* some existing item of a different material kind lies within the buffer  *)
(* distance of the position; with the policy disabled there is none.       *)
DifferentKindWithinBuffer(item, position, existingItems) ==
  \E e \in 1..Len(existingItems) :
    /\ "position" \in DOMAIN existingItems[e]
    /\ existingItems[e].materialType # item.materialType
    /\ calculateDistanceSq(position, existingItems[e].position)
         <= materialRules.mixed.bufferZone * materialRules.mixed.bufferZone

C24_BufferZonePolicy ==
  mode = "validate" =>
    \A f \in 1..Len(engine.stack) :
      (engine.stack[f].fn = "validatePlacement" /\ engine.stack[f].at = "score") =>
        ((\E v \in 1..Len(engine.stack[f].violations) :
            engine.stack[f].violations[v].type = "buffer_zone_violation")
          <=> (/\ materialRules.mixed.separateTypes
               /\ DifferentKindWithinBuffer(engine.item, engine.position,
                                            engine.existingItems)))

(* C25: the 80% support rule.  A cuboidal item placed above the floor      *)
(* passes the stacking check only if at least 80% of its footprint rests   *)
(* on items beneath it; below 80% validatePlacement holds an               *)
(* 'insufficient_support' violation (or one of the stacking violations     *)
(* the check returns before it reaches the support rule).                  *)
Overlap1D(a1, a2, b1, b2) == Max(0, Min(a2, b2) - Max(a1, b1))

(* the existing items that stand lower than the position                   *)
Beneath(item, position, existingItems) ==
  {e \in 1..Len(existingItems) :
     /\ "position" \in DOMAIN existingItems[e]
     /\ existingItems[e].position.y < position.y}

(* the area the footprint of the item shares with every item of S          *)
SharedArea(item, position, existingItems, S) ==
  LET Lo(axis) == CHOOSE m \in {existingItems[e].position[axis] : e \in S}
                            \cup {position[axis]} :
                    \A e \in S : m >= existingItems[e].position[axis] /\ m >= position[axis]
      HiX == CHOOSE m \in {existingItems[e].position.x
                             + ConstraintsEngine_getItemDimensions(existingItems[e]).length
                             : e \in S} \cup {position.x + item.dimensions.length} :
               /\ m <= position.x + item.dimensions.length
               /\ \A e \in S : m <= existingItems[e].position.x
                                 + ConstraintsEngine_getItemDimensions(existingItems[e]).length
      HiZ == CHOOSE m \in {existingItems[e].position.z
                             + ConstraintsEngine_getItemDimensions(existingItems[e]).width
                             : e \in S} \cup {position.z + item.dimensions.width} :
               /\ m <= position.z + item.dimensions.width
               /\ \A e \in S : m <= existingItems[e].position.z
                                 + ConstraintsEngine_getItemDimensions(existingItems[e]).width
  IN  Max(0, HiX - Lo("x")) * Max(0, HiZ - Lo("z"))

RECURSIVE SignedAreas(_, _, _, _)
SignedAreas(item, position, existingItems, subsets) ==
  IF subsets = {} THEN 0
  ELSE LET S == CHOOSE T \in subsets : TRUE
           sign == IF Cardinality(S) % 2 = 1 THEN 1 ELSE -1
       IN  sign * SharedArea(item, position, existingItems, S)
           + SignedAreas(item, position, existingItems, subsets \ {S})

(* the area of the footprint that lies over items beneath (inclusion and   *)
(* exclusion over the items beneath)                                       *)
RestingArea(item, position, existingItems) ==
  SignedAreas(item, position, existingItems,
              SUBSET Beneath(item, position, existingItems) \ {{}})

StackingViolationTypes ==
  {"insufficient_support", "non_stackable_violation", "heavy_above_light"}

C25_SupportRule ==
  mode = "validate" =>
    \A f \in 1..Len(engine.stack) :
      (/\ engine.stack[f].fn = "validatePlacement"
       /\ engine.stack[f].at = "score"
       /\ engine.item.materialType = "cuboidal"
       /\ AboveGround(engine.position)
       /\ 10 * RestingArea(engine.item, engine.position, engine.existingItems)
            < 8 * engine.item.dimensions.length * engine.item.dimensions.width)
      => \E v \in 1..Len(engine.stack[f].violations) :
           engine.stack[f].violations[v].type \in StackingViolationTypes

(* C30: the nesting-depth check terminates.  While calculateNestingDepth   *)
(* runs, the depth it has counted is never greater than the number of      *)
(* existing nesting-eligible cylinders, so the loop ends after at most     *)
(* that many iterations.                                                   *)
NestingEligible(existingItems) ==
  {e \in 1..Len(existingItems) :
     existingItems[e].materialType = "cylindrical" /\ existingItems[e].nesting}

C30_NestingDepthBounded ==
  mode = "validate" =>
    \A f \in 1..Len(engine.stack) :
      engine.stack[f].fn = "calculateNestingDepth" =>
        engine.stack[f].depth <= Cardinality(NestingEligible(engine.existingItems))

=============================================================================
